---------------------------- MODULE Spec2Model ----------------------------
(***************************************************************************)
(* Verification model of pachinko-sphere: the fair draw sampler            *)
(* (lib/drawEngine.ts), the persisted application store (lib/store.ts),    *)
(* the draw orchestrator (lib/lotteryManager.ts, LotteryManager) and the   *)
(* winner sequencing of the sphere (components/LotterySphere.ts).          *)
(*                                                                         *)
(* The program is single threaded: every action below is one task of the   *)
(* event loop (a call from the page, a timer callback, an animation frame, *)
(* a button press on a dialog together with the continuation of the await  *)
(* it resolves).                                                           *)
(***************************************************************************)
EXTENDS Integers, Sequences, FiniteSets, TLC

(***************************************************************************)
(* Bounds of the model.                                                    *)
(***************************************************************************)
\* Number of names in the default name list (data/name.ts).
NumNames == 3
\* Number of startDraw() calls issued in one behaviour.
MaxCalls == 2
\* Number of store.reset() and store.updatePrizes() calls in one behaviour.
MaxStoreOps == 1
\* Width in bits of the random words (Uint32Array in the source).
WordBits == 2
\* Longest candidate array handed to drawWinners when it is checked alone.
MaxLen == 3
\* Bits in the significand of the floating-point numbers (53 in the source's
\* IEEE-754 doubles).
MantBits == 8
\* computeSpinPlan is called with durations and turns -1, -1/2, 0, 1/2, ...,
\* MaxHalves/2.
MaxHalves == 12

(***************************************************************************)
(* Program constants.                                                      *)
(***************************************************************************)
\* store.ts getInitialState: three default prizes with counts 1, 2, 5.
NumPrizes == 3
DefaultCounts == <<1, 2, 5>>

Names == 1..NumNames
Words == 0..(2^WordBits - 1)
Range(s) == {s[i] : i \in DOMAIN s}
Min(S) == CHOOSE x \in S : \A y \in S : x <= y

(***************************************************************************)
(* lib/drawEngine.ts                                                       *)
(***************************************************************************)
\* [arr[i], arr[j]] = [arr[j], arr[i]]  (1-based positions here)
Swap(arr, i, j) == [arr EXCEPT ![i] = arr[j], ![j] = arr[i]]

\* The loop of shuffle: i is the code's 0-based index, words[i] the random
\* word drawn by crypto.getRandomValues in iteration i.
RECURSIVE ShuffleLoop(_, _, _)
ShuffleLoop(arr, i, words) ==
  IF i > 0
    THEN LET j == words[i] % (i + 1)
         IN  ShuffleLoop(Swap(arr, i + 1, j + 1), i - 1, words)
    ELSE arr

shuffle(array, words) == ShuffleLoop(array, Len(array) - 1, words)

\* The random words one call of shuffle consumes for an array of length n.
WordSeqs(n) == [1..(n - 1) -> Words]

\* What a call of drawWinners leaves behind: the DrawResult it returns or
\* the Error it throws (ok, error, winners, remainingCandidates), the
\* caller's array after the call (input), and the number of random words
\* it took from crypto.getRandomValues (consumed).
Thrown(candidates, message) ==
  [ok |-> FALSE, error |-> message, winners |-> <<>>,
   remainingCandidates |-> <<>>, input |-> candidates, consumed |-> 0]

\* drawWinners with shuffled.slice(count - 1) for the remaining candidates.
drawWinnersSliceOffByOne(candidates, count, words) ==
  IF count <= 0
    THEN Thrown(candidates, "Draw count must be at least 1")
  ELSE IF count > Len(candidates)
    THEN Thrown(candidates, "Not enough candidates to draw")
  ELSE LET shuffled == shuffle(candidates, words)
       IN  [ok |-> TRUE, error |-> "",
            winners |-> SubSeq(shuffled, 1, count),
            remainingCandidates |-> SubSeq(shuffled, count, Len(shuffled)),
            input |-> candidates, consumed |-> Len(candidates) - 1]

\* drawWinners with one check and one message for both invalid cases.
drawWinnersOneError(candidates, count, words) ==
  IF count <= 0 \/ count > Len(candidates)
    THEN Thrown(candidates, "Not enough candidates to draw")
  ELSE LET shuffled == shuffle(candidates, words)
       IN  [ok |-> TRUE, error |-> "",
            winners |-> SubSeq(shuffled, 1, count),
            remainingCandidates |-> SubSeq(shuffled, count + 1, Len(shuffled)),
            input |-> candidates, consumed |-> Len(candidates) - 1]

\* drawWinners with a shuffle that works on the caller's array itself.
drawWinnersInPlace(candidates, count, words) ==
  IF count <= 0
    THEN Thrown(candidates, "Draw count must be at least 1")
  ELSE IF count > Len(candidates)
    THEN Thrown(candidates, "Not enough candidates to draw")
  ELSE LET shuffled == shuffle(candidates, words)
       IN  [ok |-> TRUE, error |-> "",
            winners |-> SubSeq(shuffled, 1, count),
            remainingCandidates |-> SubSeq(shuffled, count + 1, Len(shuffled)),
            input |-> shuffled, consumed |-> Len(candidates) - 1]

\* drawWinners.  Both checks come before shuffle is called; shuffle works on
\* the copy `[...array]` and draws one word in each of its length - 1
\* iterations.
drawWinners(candidates, count, words) ==
  IF count <= 0
    THEN Thrown(candidates, "Draw count must be at least 1")
  ELSE IF count > Len(candidates)
    THEN Thrown(candidates, "Not enough candidates to draw")
  ELSE LET shuffled == shuffle(candidates, words)
       IN  [ok |-> TRUE, error |-> "",
            winners |-> SubSeq(shuffled, 1, count),
            remainingCandidates |-> SubSeq(shuffled, count + 1, Len(shuffled)),
            input |-> candidates, consumed |-> Len(candidates) - 1]

(***************************************************************************)
(* JavaScript numbers: binary floating point, round to nearest, ties to    *)
(* even, with a significand of MantBits bits.  A number is a record        *)
(* [k, m, e]: k = "num" for the finite value m * 2^e (m = 0, or            *)
(* 2^(MantBits-1) <= |m| < 2^MantBits), k = "inf" for Infinity (m = 1) and *)
(* -Infinity (m = -1), k = "nan" for NaN.                                  *)
(***************************************************************************)
Abs(n) == IF n < 0 THEN -n ELSE n
Sign(n) == IF n < 0 THEN -1 ELSE 1

\* Number of bits of the natural number n, four bits at a time.
RECURSIVE BitLength(_)
BitLength(n) ==
  IF n >= 16 THEN 4 + BitLength(n \div 16)
  ELSE IF n >= 8 THEN 4
  ELSE IF n >= 4 THEN 3
  ELSE IF n >= 2 THEN 2
  ELSE n

Num(m, e) == [k |-> "num", m |-> m, e |-> e]
NaN == [k |-> "nan", m |-> 0, e |-> 0]
Infinity(sign) == [k |-> "inf", m |-> sign, e |-> 0]

\* The number nearest to n * 2^e; sticky: the exact value lies strictly
\* above |n| * 2^e (and below (|n| + 1) * 2^e) in magnitude.
\* The number nearest to sgn * a * 2^e for a > 0 of len bits.
RoundOf(sgn, a, len, e, sticky) ==
  IF len <= MantBits
    THEN Num(sgn * a * 2^(MantBits - len), e - (MantBits - len))
  ELSE LET sh == len - MantBits
           q == a \div 2^sh
           r == a % 2^sh
           half == 2^(sh - 1)
           up == \/ r > half
                 \/ r = half /\ (sticky \/ q % 2 = 1)
           q1 == IF up THEN q + 1 ELSE q
       IN  IF q1 = 2^MantBits
             THEN Num(sgn * (q1 \div 2), e + sh + 1)
             ELSE Num(sgn * q1, e + sh)

Round(n, e, sticky) ==
  IF n = 0 THEN Num(0, 0)
  ELSE RoundOf(Sign(n), Abs(n), BitLength(Abs(n)), e, sticky)

\* The number a numeric literal n/d denotes (d > 0).
LiteralOf(n, d, k) ==
  Round(Sign(n) * ((Abs(n) * 2^k) \div d), -k, (Abs(n) * 2^k) % d # 0)

Literal(n, d) == LiteralOf(n, d, MantBits + 2 + BitLength(d))

\* x * y
Times(x, y) ==
  IF x.k # "num" \/ y.k # "num" THEN NaN
  ELSE Round(x.m * y.m, x.e + y.e, FALSE)

\* x / y
Over(x, y) ==
  IF x.k # "num" \/ y.k # "num" THEN NaN
  ELSE IF y.m = 0
    THEN IF x.m = 0 THEN NaN ELSE Infinity(Sign(x.m))
  ELSE LET a == Abs(x.m) * 2^(MantBits + 2)
           b == Abs(y.m)
       IN  Round(Sign(x.m) * Sign(y.m) * (a \div b),
                 x.e - y.e - (MantBits + 2), a % b # 0)

\* x + y
Plus(x, y) ==
  IF x.k # "num" \/ y.k # "num" THEN NaN
  ELSE IF x.m = 0 THEN y
  ELSE IF y.m = 0 THEN x
  ELSE LET hi == IF x.e >= y.e THEN x ELSE y
           lo == IF x.e >= y.e THEN y ELSE x
           d == hi.e - lo.e
       IN  IF d > MantBits + 2 THEN hi
           ELSE Round(hi.m * 2^d + lo.m, lo.e, FALSE)

\* x <= 0
NotPositive(x) == x.k = "nan" \/ x.m <= 0

(***************************************************************************)
(* lib/spinMath.ts                                                         *)
(***************************************************************************)
\* Math.PI
MathPI == Literal(355, 113)

\* A plan whose constant phase takes half of the total time.
computeSpinPlanHalfConstant(options) ==
  LET totalRadian == Times(Times(options.turns, MathPI), Literal(2, 1))
      totalMs == Times(options.duration, Literal(1000, 1))
      t1 == Times(totalMs, Literal(1, 5))
      t3 == Times(totalMs, Literal(2, 5))
      t2 == Times(totalMs, Literal(1, 2))
      V == Over(totalRadian,
                Plus(Plus(Times(Literal(1, 2), t1), t2), Times(Literal(1, 2), t3)))
  IN  [ok |-> TRUE, error |-> "",
       maxAngularVelocity |-> V, accelerationDuration |-> t1,
       constantDuration |-> t2, decelerationDuration |-> t3]

\* A plan whose peak velocity is the mean velocity: the ramps are counted as
\* if they ran at full speed.
computeSpinPlanNoRamps(options) ==
  LET totalRadian == Times(Times(options.turns, MathPI), Literal(2, 1))
      totalMs == Times(options.duration, Literal(1000, 1))
      t1 == Times(totalMs, Literal(1, 5))
      t2 == Times(totalMs, Literal(2, 5))
      t3 == Times(totalMs, Literal(2, 5))
      V == Over(totalRadian, Plus(Plus(t1, t2), t3))
  IN  [ok |-> TRUE, error |-> "",
       maxAngularVelocity |-> V, accelerationDuration |-> t1,
       constantDuration |-> t2, decelerationDuration |-> t3]

\* computeSpinPlan(options): no check of its arguments, no throw.
computeSpinPlan(options) ==
  LET totalRadian == Times(Times(options.turns, MathPI), Literal(2, 1))
      totalMs == Times(options.duration, Literal(1000, 1))
      accelRatio == Literal(1, 5)
      constRatio == Literal(2, 5)
      decelRatio == Literal(2, 5)
      t1 == Times(totalMs, accelRatio)
      t2 == Times(totalMs, constRatio)
      t3 == Times(totalMs, decelRatio)
      V == Over(totalRadian,
                Plus(Plus(Times(Literal(1, 2), t1), t2), Times(Literal(1, 2), t3)))
  IN  [ok |-> TRUE, error |-> "",
       maxAngularVelocity |-> V, accelerationDuration |-> t1,
       constantDuration |-> t2, decelerationDuration |-> t3]

(***************************************************************************)
(* State.                                                                  *)
(***************************************************************************)
VARIABLES
  \* lib/store.ts, AppState (the language field plays no part here)
  mode,                  \* 'prize' | 'free'
  candidates,            \* string[]: the candidate pool
  prizes,                \* Prize[]: records [id, count]
  results,               \* Record<prizeId, string[]>
  freeResults,           \* string[]
  freeInitialCandidates, \* string[]
  currentPrizeId,
  isDrawing,
  \* LotteryManager
  sphereAttached,        \* this.sphere !== null
  calls,                 \* the activations of startDraw(), in issue order
  \* LotterySphere (the fields its winner sequencing reads and writes)
  sphereNames,           \* this.names, as the set of names that have a sprite
  sphereState,           \* this.state: AnimationState
  winnersQueue,          \* this.winnersQueue
  currentWinnerIndex,    \* this.currentWinnerIndex (0-based, as in the code)
  cbOwner,               \* the call whose closures are this.onWinnerHighlight
                         \* and this.onAllFinished (0: null)
  \* a pure function (drawWinners, computeSpinPlan) called on its own
  dIn,                   \* the arguments of the function called on its own
  dOut,                  \* what the call returns or throws
  \* LotterySphere (timing and rotation; times are whole milliseconds)
  now,                   \* performance.now() at the latest call or frame
  stateStartTime,        \* this.stateStartTime
  holdAtWinner,          \* this.holdAtWinner
  rotationController,    \* this.rotationController (omega is the y component,
                         \* the x component is half of it throughout)
  spinPlan,              \* this.spinPlan
  stopConfig,            \* this.stopConfig
  extraSpinTotal,        \* this.extraSpinTotal, in turns (units of 2π)
  decelerationDuration,  \* this.decelerationDuration
  extraAngle,            \* the overlay angle of the latest lock frame, in turns
  sphereLog,             \* the calls made to the sphere and the callbacks
                         \* and console warnings it made, in order
  groupQuaternion,       \* this.group.quaternion: the displayed orientation
  startQuaternion,       \* this.startQuaternion
  endQuaternion,         \* this.endQuaternion
  \* bookkeeping of the bounds
  resets,                \* store.reset() calls so far
  edits,                 \* store.updatePrizes() and setMode() calls so far
  \* history
  freeEntryPool          \* the candidate pool as it was when the mode last
                         \* changed from 'prize' to 'free'

storeVars == <<mode, candidates, prizes, results, freeResults,
               freeInitialCandidates, currentPrizeId, isDrawing>>
sphereVars == <<sphereNames, sphereState, winnersQueue, currentWinnerIndex,
                cbOwner>>
drawVars == <<dIn, dOut>>
poseVars == <<groupQuaternion, startQuaternion, endQuaternion>>
motionVars == <<now, stateStartTime, holdAtWinner, rotationController,
                spinPlan, stopConfig, extraSpinTotal, decelerationDuration,
                extraAngle, sphereLog, poseVars>>
vars == <<storeVars, sphereAttached, calls, sphereVars, drawVars, motionVars,
          resets, edits, freeEntryPool>>

(***************************************************************************)
(* lib/prizeConfigState.ts, lib/store.ts                                   *)
(***************************************************************************)
\* generateId(): a fresh id for every prize created.  The k-th prize made by
\* the g-th getInitialState() gets <<g, k>>.
PrizeIds == (0..MaxStoreOps) \X (1..NumPrizes)
\* An id no prize of the list has (the selected prize was deleted).
UnknownPrizeId == <<0, 0>>
NoPrize == [id |-> UnknownPrizeId, count |-> 0]

createPrize(g, k, count) == [id |-> <<g, k>>, count |-> count]

\* names of data/name.ts
DefaultNames == [i \in 1..NumNames |-> i]

\* results is kept as a function on all ids: an absent key and an empty list
\* read the same everywhere (`existing && existing.length > 0`,
\* `results[id] || []`, Object.values(results).flat()).
NoResults == [id \in PrizeIds |-> <<>>]

getInitialState(g) ==
  LET defaultPrizes == [k \in 1..NumPrizes |-> createPrize(g, k, DefaultCounts[k])]
  IN  [mode |-> "prize",
       candidates |-> DefaultNames,
       prizes |-> defaultPrizes,
       results |-> NoResults,
       freeResults |-> <<>>,
       freeInitialCandidates |-> DefaultNames,
       currentPrizeId |-> defaultPrizes[1].id,
       isDrawing |-> FALSE]

\* state.prizes.find(p => p.id === id)
FindPrize(ps, id) ==
  LET hits == {k \in DOMAIN ps : ps[k].id = id}
  IN  IF hits = {} THEN NoPrize ELSE ps[Min(hits)]

\* addResults: currentResults[prizeId] = [...(currentResults[prizeId] || []), ...names]
addResults(res, prizeId, names) == [res EXCEPT ![prizeId] = @ \o names]

\* removeCandidates: candidates.filter(n => !names.includes(n))
removeCandidates(cands, names) ==
  SelectSeq(cands, LAMBDA n : n \notin Range(names))

\* addFreeResult: the new freeResults and candidates
addFreeResultList(fr, name) == <<name>> \o fr
\* addFreeResult that leaves the pool as it is.
addFreeResultPoolKeeps(cands, name) == cands
addFreeResultPool(cands, name) == SelectSeq(cands, LAMBDA n : n # name)

\* undoFree(): the new freeResults and the new candidates.
undoFreeList(fr) == IF Len(fr) = 0 THEN fr ELSE Tail(fr)
\* undoFree that puts the name back at the end of the pool.
undoFreePoolAtEnd(fr, cands) ==
  IF Len(fr) = 0 THEN cands ELSE cands \o <<Head(fr)>>
undoFreePool(fr, cands) ==
  IF Len(fr) = 0 THEN cands ELSE <<Head(fr)>> \o cands

(***************************************************************************)
(* lib/modalManager.ts                                                     *)
(***************************************************************************)
\* What the user can do to the overwrite dialog.  confirm() shows it with
\* allowOutsideClick: false, so a click outside does nothing.
DialogEvents == {"confirmBtn", "cancelBtn", "escape"}

\* show(): handleConfirm resolves the promise, handleCancel rejects it.
showSettles(event) == IF event = "confirmBtn" THEN "resolve" ELSE "reject"

\* confirm() with Escape taken for a confirmation.
confirmEscapeAccepts(event) == event # "cancelBtn"

\* confirm(): try { await show(...); return true } catch { return false }
confirm(event) == showSettles(event) = "resolve"

(***************************************************************************)
(* lib/lotteryManager.ts: one record per activation of startDraw()         *)
(***************************************************************************)
\* pc: where the activation is.
\*   unissued  not called yet
\*   prompt    suspended in `await modalManager.confirm(...)`
\*   reveal    the DRAW_DELAY timer is pending
\*   waiting   stopAndHighlightWinners was requested; the activation goes on
\*             only when the sphere calls its onAllFinished closure
\*   settle    the 300 ms timer set by onAllFinished is pending
\*   done      the commit ran
\*   returned  startDraw returned without drawing (ret says why)
\*   threw     drawWinners threw
\* The other fields are the closure's variables (kind, prize, snapCandidates
\* and snapResults for `state`, winners) and a record of what happened to the
\* activation: the user's answer to its dialog, whether it went through the
\* overwrite rollback, the size of the pool it sampled from, whether it
\* requested a spin and sampled, the names its onWinnerHighlight was called
\* with, whether its onAllFinished was called, whether it committed, whether
\* store.reset() ran while its callbacks were outstanding (stale), and the
\* activations that were in flight when it was called (overlap).
BlankCall ==
  [pc |-> "unissued", ret |-> "", kind |-> "", prize |-> NoPrize,
   snapCandidates |-> <<>>, snapResults |-> NoResults, winners |-> <<>>,
   answer |-> "", overwrite |-> FALSE, poolLen |-> 0,
   spun |-> FALSE, sampled |-> FALSE, highlights |-> <<>>,
   allFinished |-> FALSE, committed |-> FALSE, stale |-> FALSE,
   overlap |-> {}]

\* The record of an activation that has ended: its closure is gone, what it
\* did stays on record.
Ended(rec, pc, ret) ==
  [BlankCall EXCEPT !.pc = pc, !.ret = ret, !.kind = rec.kind,
                    !.answer = rec.answer, !.overwrite = rec.overwrite,
                    !.spun = rec.spun, !.sampled = rec.sampled,
                    !.allFinished = rec.allFinished,
                    !.committed = (pc = "done"), !.stale = rec.stale,
                    !.overlap = rec.overlap]

CallIds == 1..MaxCalls
InFlight == {"prompt", "reveal", "waiting", "settle"}
Deferred == {"reveal", "waiting", "settle"}

\* LotterySphere.spin(plan): nothing without names, else 'accelerating'.
spin(snames, st) == IF snames = {} THEN st ELSE "accelerating"

\* this.sphere?.setNames(list)
setNames(snames, list) == IF sphereAttached THEN Range(list) ELSE snames

\* drawPrize from `const currentState = store.getState()` on.  cs: calls with
\* this activation's record so far; cands, res, snames: the store's candidates
\* and results and the sphere's names at that line.
drawPrizeFromSizeCheck(cs, c, prize, cands, res, snames) ==
  /\ candidates' = cands
  /\ results' = res
  /\ sphereNames' = snames
  /\ IF Len(cands) < prize.count
       THEN \* modalManager.alert(insufficientCandidates); return
            /\ calls' = [cs EXCEPT ![c] = Ended(@, "returned", "insufficient")]
            /\ UNCHANGED <<isDrawing, sphereState>>
       ELSE \E words \in WordSeqs(Len(cands)) :
              LET r == drawWinners(cands, prize.count, words)
              IN  /\ isDrawing' = TRUE
                  /\ sphereState' = IF sphereAttached
                                      THEN spin(snames, sphereState)
                                      ELSE sphereState
                  /\ calls' = [cs EXCEPT
                       ![c].pc = IF r.ok THEN "reveal" ELSE "threw",
                       ![c].prize = prize,
                       ![c].snapCandidates = <<>>,
                       ![c].snapResults = NoResults,
                       ![c].poolLen = Len(cands),
                       ![c].spun = TRUE,
                       ![c].sampled = TRUE,
                       ![c].winners = r.winners]

drawPrize(cs, c) ==
  LET prize == FindPrize(prizes, currentPrizeId)
  IN  IF prize = NoPrize
        THEN /\ calls' = [cs EXCEPT ![c] = Ended(@, "returned", "noPrize")]
             /\ UNCHANGED <<candidates, results, isDrawing, sphereNames,
                            sphereState>>
      ELSE IF Len(results[prize.id]) > 0
        THEN \* await modalManager.confirm(prizeOverwriteConfirm)
             /\ calls' = [cs EXCEPT ![c].pc = "prompt",
                                    ![c].prize = prize,
                                    ![c].snapCandidates = candidates,
                                    ![c].snapResults = results]
             /\ UNCHANGED <<candidates, results, isDrawing, sphereNames,
                            sphereState>>
      ELSE drawPrizeFromSizeCheck(cs, c, prize, candidates, results,
                                  sphereNames)

drawFree(cs, c) ==
  /\ UNCHANGED <<candidates, results, sphereNames>>
  /\ IF Len(candidates) = 0
       THEN /\ calls' = [cs EXCEPT ![c] = Ended(@, "returned", "insufficient")]
            /\ UNCHANGED <<isDrawing, sphereState>>
       ELSE \E words \in WordSeqs(Len(candidates)) :
              LET r == drawWinners(candidates, 1, words)
                  valid == /\ r.ok
                           /\ Len(r.winners) = 1
                           /\ r.winners[1] \in Range(candidates)
              IN  /\ sphereState' = IF sphereAttached
                                      THEN spin(sphereNames, sphereState)
                                      ELSE sphereState
                  \* setDrawing(true) ... and setDrawing(false) again when
                  \* the runtime assertion on the winner fails
                  /\ isDrawing' = valid
                  /\ calls' = [cs EXCEPT
                       ![c].pc = IF valid THEN "reveal"
                                 ELSE IF r.ok THEN "returned" ELSE "threw",
                       ![c].ret = IF ~valid /\ r.ok THEN "invalidWinner" ELSE "",
                       ![c].poolLen = Len(candidates),
                       ![c].spun = TRUE,
                       ![c].sampled = TRUE,
                       ![c].winners = r.winners]

\* async startDraw(): the call up to its first suspension or its return.
startDraw ==
  \E c \in CallIds :
    /\ calls[c].pc = "unissued"
    /\ \A b \in 1..(c - 1) : calls[b].pc # "unissued"
    /\ LET cs == [calls EXCEPT
                   ![c].kind = mode,
                   ![c].overlap = {b \in CallIds : calls[b].pc \in InFlight}]
       IN  IF isDrawing
             THEN /\ calls' = [cs EXCEPT ![c] = Ended(@, "returned", "guard")]
                  /\ UNCHANGED <<candidates, results, isDrawing, sphereNames,
                                 sphereState>>
           ELSE IF mode = "prize" THEN drawPrize(cs, c)
           ELSE drawFree(cs, c)
    /\ UNCHANGED <<mode, prizes, freeResults, freeInitialCandidates,
                   currentPrizeId, sphereAttached, winnersQueue,
                   currentWinnerIndex, cbOwner, drawVars, freeEntryPool,
                   motionVars, resets, edits>>

\* The user answers the overwrite dialog of activation c, and drawPrize goes
\* on after the await (the continuation is a microtask of the same task).
answerOverwrite ==
  \E c \in CallIds, event \in DialogEvents :
    /\ calls[c].pc = "prompt"
    /\ LET cs == [calls EXCEPT ![c].answer = event]
       IN  IF ~confirm(event)
             THEN /\ calls' = [cs EXCEPT ![c] = Ended(@, "returned", "declined")]
                  /\ UNCHANGED <<candidates, results, isDrawing, sphereNames,
                                 sphereState>>
             ELSE LET prize == calls[c].prize
                      existingWinners == calls[c].snapResults[prize.id]
                      newCandidates == calls[c].snapCandidates \o existingWinners
                      newResults == [calls[c].snapResults EXCEPT ![prize.id] = <<>>]
                  IN  drawPrizeFromSizeCheck(
                        [cs EXCEPT ![c].overwrite = TRUE], c, prize,
                        newCandidates, newResults,
                        setNames(sphereNames, newCandidates))
    /\ UNCHANGED <<mode, prizes, freeResults, freeInitialCandidates,
                   currentPrizeId, sphereAttached, winnersQueue,
                   currentWinnerIndex, cbOwner, drawVars, freeEntryPool,
                   motionVars, resets, edits>>

\* A completion closure that takes the winners from the head of the pool as
\* it is when the closure runs.
committedWinnersFromPool(c) ==
  IF Len(candidates) < Len(calls[c].winners) THEN calls[c].winners
  ELSE SubSeq(candidates, 1, Len(calls[c].winners))

\* The list the completion closure commits: the `winners` it closed over.
committedWinners(c) == calls[c].winners

\* A commit that does not wait for the sphere: its timer is armed with the
\* reveal timer.
commitPendingFromReveal(c) == calls[c].pc \in {"reveal", "settle"}

\* The 300 ms commit timer of activation c is pending: it is set by the
\* onAllFinished closure only.
commitPending(c) == calls[c].pc = "settle"

\* The list the reveal timer hands to stopAndHighlightWinners.
revealedWinners(c) == calls[c].winners

\* What the sphere's onAllFinished closure of activation c does:
\* setTimeout(commit, 300).
onAllFinished(cs, c) == [cs EXCEPT ![c].pc = "settle", ![c].allFinished = TRUE]

\* The DRAW_DELAY timer of activation c fires:
\* this.sphere?.stopAndHighlightWinners(winners, onWinnerHighlight, onAllFinished, config)
revealTimer ==
  \E c \in CallIds :
    /\ calls[c].pc = "reveal"
    /\ IF ~sphereAttached
         THEN \* this.sphere is null: nothing is called
              /\ calls' = [calls EXCEPT ![c].pc = "waiting"]
              /\ UNCHANGED <<sphereState, winnersQueue, currentWinnerIndex,
                             cbOwner>>
       ELSE IF sphereNames = {}
         THEN \* stopAndHighlightWinners: names.length === 0, onAllFinished()
              /\ calls' = onAllFinished(calls, c)
              /\ UNCHANGED <<sphereState, winnersQueue, currentWinnerIndex,
                             cbOwner>>
       ELSE /\ winnersQueue' = revealedWinners(c)
            /\ currentWinnerIndex' = 0
            /\ cbOwner' = c
            /\ IF Len(revealedWinners(c)) > 0
                 THEN \* prepareDeceleration(winnersQueue[0]); 'decelerating'
                      /\ sphereState' = "decelerating"
                      /\ calls' = [calls EXCEPT ![c].pc = "waiting"]
                 ELSE /\ sphereState' = "idle"
                      /\ calls' = onAllFinished(calls, c)
    /\ UNCHANGED <<storeVars, sphereAttached, sphereNames, drawVars,
                   freeEntryPool,
                   motionVars, resets,
                   edits>>

\* An animation frame in 'decelerating' on which the lock's progress has
\* reached 1: onWinnerHighlight(current winner), then 'highlighting'.
animateLockReached ==
  /\ sphereState = "decelerating"
  /\ sphereState' = "highlighting"
  /\ calls' = IF cbOwner = 0 THEN calls
              ELSE [calls EXCEPT ![cbOwner].highlights =
                      Append(@, winnersQueue[currentWinnerIndex + 1])]
  /\ UNCHANGED <<storeVars, sphereAttached, sphereNames, winnersQueue,
                 currentWinnerIndex, cbOwner, drawVars, freeEntryPool,
                 motionVars, resets,
                 edits>>

\* An animation frame in 'highlighting' on which the pause is over:
\* currentWinnerIndex++, then prepareTransitionToNext or the end of the
\* sequence ('idle', onAllFinished()).
animatePauseOver ==
  /\ sphereState = "highlighting"
  /\ currentWinnerIndex' = currentWinnerIndex + 1
  /\ IF currentWinnerIndex + 1 < Len(winnersQueue)
       THEN \* prepareTransitionToNext: 'decelerating' when the sprite is
            \* found, else 'highlighting' with stateStartTime = 0
            /\ sphereState' =
                 IF winnersQueue[currentWinnerIndex + 2] \in sphereNames
                   THEN "decelerating" ELSE "highlighting"
            /\ calls' = calls
       ELSE /\ sphereState' = "idle"
            /\ calls' = IF cbOwner = 0 THEN calls
                        ELSE onAllFinished(calls, cbOwner)
  /\ UNCHANGED <<storeVars, sphereAttached, sphereNames, winnersQueue,
                 cbOwner, drawVars, freeEntryPool, motionVars, resets, edits>>

\* A commit that files the winners under the prize selected when the timer
\* fires.
settleTimerCurrentPrize ==
  \E c \in CallIds :
    /\ commitPending(c)
    /\ isDrawing' = FALSE
    /\ IF calls[c].kind = "prize"
         THEN /\ results' = addResults(results, currentPrizeId,
                                       committedWinners(c))
              /\ candidates' = removeCandidates(candidates, committedWinners(c))
              /\ freeResults' = freeResults
         ELSE /\ freeResults' = addFreeResultList(freeResults,
                                                  committedWinners(c)[1])
              /\ candidates' = addFreeResultPool(candidates,
                                                 committedWinners(c)[1])
              /\ results' = results
    /\ sphereNames' = setNames(sphereNames, candidates')
    /\ calls' = [calls EXCEPT ![c] = Ended(@, "done", "")]
    /\ UNCHANGED <<mode, prizes, freeInitialCandidates, currentPrizeId,
                   sphereAttached, sphereState, winnersQueue,
                   currentWinnerIndex, cbOwner, drawVars, freeEntryPool,
                   motionVars, resets, edits>>

\* The 300 ms timer of activation c fires: the commit.
settleTimer ==
  \E c \in CallIds :
    /\ commitPending(c)
    /\ isDrawing' = FALSE
    /\ IF calls[c].kind = "prize"
         THEN \* store.addResults(prize.id, winners); store.removeCandidates(winners)
              /\ results' = addResults(results, calls[c].prize.id,
                                       committedWinners(c))
              /\ candidates' = removeCandidates(candidates, committedWinners(c))
              /\ freeResults' = freeResults
         ELSE \* store.addFreeResult(winners[0])
              /\ freeResults' = addFreeResultList(freeResults,
                                                  committedWinners(c)[1])
              /\ candidates' = addFreeResultPool(candidates,
                                                 committedWinners(c)[1])
              /\ results' = results
    \* this.sphere?.setNames(store.getState().candidates)
    /\ sphereNames' = setNames(sphereNames, candidates')
    /\ calls' = [calls EXCEPT ![c] = Ended(@, "done", "")]
    /\ UNCHANGED <<mode, prizes, freeInitialCandidates, currentPrizeId,
                   sphereAttached, sphereState, winnersQueue,
                   currentWinnerIndex, cbOwner, drawVars, freeEntryPool,
                   motionVars, resets, edits>>

\* The states the commit of a prize draw hands to Store.setState, each of
\* which is persisted and delivered to the subscribers, in order: after
\* setDrawing(false), after addResults(prize.id, winners) and after
\* removeCandidates(winners).
settleDeliveries(c) ==
  LET s0 == [isDrawing |-> isDrawing, results |-> results,
             candidates |-> candidates]
      s1 == [s0 EXCEPT !.isDrawing = FALSE]
      s2 == [s1 EXCEPT !.results = addResults(@, calls[c].prize.id,
                                              committedWinners(c))]
      s3 == [s2 EXCEPT !.candidates =
                         removeCandidates(@, committedWinners(c))]
  IN  <<s1, s2, s3>>

(***************************************************************************)
(* Calls of the page on the store and the manager                          *)
(***************************************************************************)
setCurrentPrize ==
  \E id \in {prizes[k].id : k \in DOMAIN prizes} \cup {UnknownPrizeId} :
    /\ currentPrizeId' = id
    /\ UNCHANGED <<mode, candidates, prizes, results, freeResults,
                   freeInitialCandidates, isDrawing, sphereAttached, calls,
                   sphereVars, drawVars, freeEntryPool, motionVars, resets,
                   edits>>

\* setMode(mode): entering free mode snapshots the pool for resetFree.
setMode ==
  \E m \in {"prize", "free"} :
    /\ resets + edits < MaxStoreOps
    /\ edits' = edits + 1
    /\ mode' = m
    /\ freeInitialCandidates' = IF m = "free" THEN candidates
                                ELSE freeInitialCandidates
    /\ freeEntryPool' = IF mode = "prize" /\ m = "free" THEN candidates
                        ELSE freeEntryPool
    /\ UNCHANGED <<candidates, prizes, results, freeResults, currentPrizeId,
                   isDrawing, sphereAttached, calls, sphereVars, drawVars,
                   motionVars,
                   resets>>

\* updatePrizes(newPrizes) with the count of one prize edited.
updatePrizes ==
  \E k \in DOMAIN prizes, n \in Range(DefaultCounts) :
    /\ resets + edits < MaxStoreOps
    /\ edits' = edits + 1
    /\ prizes' = [prizes EXCEPT ![k].count = n]
    /\ UNCHANGED <<mode, candidates, results, freeResults,
                   freeInitialCandidates, currentPrizeId, isDrawing,
                   sphereAttached, calls, sphereVars, drawVars,
                   freeEntryPool, motionVars, resets>>

\* reset(): setState(getInitialState()).  The activations whose deferred
\* callbacks are still outstanding are marked (stale).
reset ==
  /\ resets + edits < MaxStoreOps
  /\ resets' = resets + 1
  /\ LET s == getInitialState(resets + 1)
     IN  /\ mode' = s.mode
         /\ candidates' = s.candidates
         /\ prizes' = s.prizes
         /\ results' = s.results
         /\ freeResults' = s.freeResults
         /\ freeInitialCandidates' = s.freeInitialCandidates
         /\ currentPrizeId' = s.currentPrizeId
         /\ isDrawing' = s.isDrawing
  /\ calls' = [c \in CallIds |->
                 IF calls[c].pc \in Deferred
                   THEN [calls[c] EXCEPT !.stale = TRUE] ELSE calls[c]]
  /\ UNCHANGED <<sphereAttached, sphereVars, drawVars, freeEntryPool,
                 motionVars, edits>>

\* LotteryManager.setSphere(sphere)
setSphere ==
  /\ ~sphereAttached
  /\ sphereAttached' = TRUE
  /\ UNCHANGED <<storeVars, calls, sphereVars, drawVars, freeEntryPool,
                 motionVars, resets,
                 edits>>

(***************************************************************************)
(* lib/settingsStore.ts                                                    *)
(***************************************************************************)
\* A value that is not there: an optional field left out, a key not set.
Undefined == [k |-> "undefined", m |-> 0, e |-> 0]

\* x ?? d
OrElse(x, d) == IF x = Undefined THEN d ELSE x

Neg(x) == [x EXCEPT !.m = -x.m]
Minus(x, y) == Plus(x, Neg(y))

\* A check of the lower end of the range only.
NumberAtLeast(x, lo, hi) ==
  /\ x.k = "num"
  /\ Minus(x, lo).m >= 0

\* typeof x === 'number' && x >= lo && x <= hi
NumberBetween(x, lo, hi) ==
  /\ x.k = "num"
  /\ Minus(x, lo).m >= 0
  /\ Minus(hi, x).m >= 0

DEFAULT_SETTINGS ==
  [rotationSpeed |-> Literal(1, 5), spinTurns |-> Literal(3, 1),
   spinDuration |-> Literal(5, 1), extraRevs |-> Literal(6, 1)]

\* SettingsStore.validateSettings(data): each field is taken when it is a
\* number inside its range, else the default stays.
validateSettings(data) ==
  [rotationSpeed |->
     IF NumberBetween(data.rotationSpeed, Literal(1, 10), Literal(10, 1))
       THEN data.rotationSpeed ELSE DEFAULT_SETTINGS.rotationSpeed,
   spinTurns |->
     IF NumberBetween(data.spinTurns, Literal(1, 1), Literal(100, 1))
       THEN data.spinTurns ELSE DEFAULT_SETTINGS.spinTurns,
   spinDuration |->
     IF NumberBetween(data.spinDuration, Literal(1, 1), Literal(60, 1))
       THEN data.spinDuration ELSE DEFAULT_SETTINGS.spinDuration,
   extraRevs |->
     IF NumberBetween(data.extraRevs, Literal(0, 1), Literal(200, 1))
       THEN data.extraRevs ELSE DEFAULT_SETTINGS.extraRevs]

(***************************************************************************)
(* The orchestrator, the store and the sphere together                     *)
(***************************************************************************)
NotCalled == [ok |-> FALSE, error |-> "not called", winners |-> <<>>,
              remainingCandidates |-> <<>>, input |-> <<>>, consumed |-> 0]

DrawIdle == /\ dIn = [candidates |-> <<>>, count |-> 0]
            /\ dOut = NotCalled

\* x is a whole number.
IsWhole(x) ==
  /\ x.k = "num"
  /\ x.m = 0 \/ x.e >= 0 \/ x.m % 2^(-x.e) = 0

\* Orientations are kept as terms that say how they were made; two equal
\* terms are the same orientation.
\* new THREE.Quaternion()
IdentityQuaternion == [by |-> "identity"]
\* The x and y angles of new THREE.Euler().setFromQuaternion(q, 'XYZ'), plus
\* the angle `plus` the controller has added since (the y component; the x
\* component gets half of it).
EulerOf(q) == [base |-> q, plus |-> Num(0, 0)]
\* group.rotation.set(theta.x, theta.y, 0)
RotationOf(theta) == [by |-> "euler", theta |-> theta]
\* setFromUnitVectors(localDir, targetDir) for the sprite of `name`, whose
\* position init() derives from the name list.
TargetQuaternion(name, names) ==
  [by |-> "target", name |-> name, names |-> names]
\* startQuaternion.clone().slerp(endQuaternion, t), premultiplied by the
\* turn of `extra` about the y axis (a whole number of turns is no turn).
LockQuaternion(start, end, t, extra) ==
  LET base == IF start = end \/ t.m = 0 THEN start
              ELSE IF t = Literal(1, 1) THEN end
              ELSE [by |-> "slerp", start |-> start, end |-> end, t |-> t]
  IN  IF IsWhole(extra) THEN base
      ELSE [by |-> "turned", base |-> base, extra |-> extra]

\* new RotationController()
NewRotationController ==
  [theta |-> EulerOf(IdentityQuaternion),
   omega |-> Num(0, 0), startOmega |-> Num(0, 0), targetOmega |-> Num(0, 0),
   blendStartTime |-> 0, blendDuration |-> 0, mode |-> "idle"]

\* A StopConfig duration that is left out.
NoMs == -1
\* `{}`, the StopConfig with every field left out.
NoStopConfig ==
  [extraRevs |-> Undefined, durationMs |-> NoMs, nextExtraRevs |-> Undefined,
   nextDurationMs |-> NoMs, finalPauseMs |-> NoMs]

\* spinPlan = null.
NoPlan ==
  [ok |-> FALSE, error |-> "", maxAngularVelocity |-> Num(0, 0),
   accelerationDuration |-> 0, constantDuration |-> 0,
   decelerationDuration |-> 0]

\* The timing and rotation fields of a LotterySphere just constructed.  The
\* orchestrator's specification abstracts the passage of time into
\* animateLockReached and animatePauseOver and leaves these fields alone;
\* SphereSpec below follows them frame by frame.
MotionIdle ==
  /\ now = 0
  /\ stateStartTime = 0
  /\ holdAtWinner = FALSE
  /\ rotationController = NewRotationController
  /\ spinPlan = NoPlan
  /\ stopConfig = NoStopConfig
  /\ extraSpinTotal = Num(0, 0)
  /\ decelerationDuration = 10000
  /\ extraAngle = Num(0, 0)
  /\ sphereLog = <<>>
  /\ groupQuaternion = IdentityQuaternion
  /\ startQuaternion = IdentityQuaternion
  /\ endQuaternion = IdentityQuaternion

StoreIs(s) ==
  /\ mode = s.mode
  /\ candidates = s.candidates
  /\ prizes = s.prizes
  /\ results = s.results
  /\ freeResults = s.freeResults
  /\ freeInitialCandidates = s.freeInitialCandidates
  /\ currentPrizeId = s.currentPrizeId
  /\ isDrawing = s.isDrawing
  /\ freeEntryPool = s.freeInitialCandidates

\* new Store(): the initial state, or the state an earlier session of the
\* page persisted: here after setMode('free'), or after a completed draw of
\* the first prize.
SavedStates ==
  LET s == getInitialState(0)
      w == SubSeq(s.candidates, 1, s.prizes[1].count)
  IN  {s,
       [s EXCEPT !.mode = "free"],
       [s EXCEPT !.results = addResults(s.results, s.prizes[1].id, w),
                 !.candidates = removeCandidates(s.candidates, w)]}

Init ==
  /\ \E s \in SavedStates : StoreIs(s)
  /\ calls = [c \in CallIds |-> BlankCall]
  \* new LotterySphere(canvas, names) with the name list or with none, and
  \* new LotteryManager({sphere}) with that sphere, or with null until
  \* setSphere
  /\ \/ sphereAttached = TRUE /\ sphereNames \in {{}, Range(DefaultNames)}
     \/ sphereAttached = FALSE /\ sphereNames = Range(DefaultNames)
  /\ sphereState = "idle"
  /\ winnersQueue = <<>>
  /\ currentWinnerIndex = 0
  /\ cbOwner = 0
  /\ resets = 0
  /\ edits = 0
  /\ DrawIdle
  /\ MotionIdle

Next ==
  \/ startDraw
  \/ answerOverwrite
  \/ revealTimer
  \/ animateLockReached
  \/ animatePauseOver
  \/ settleTimer
  \/ setCurrentPrize
  \/ setMode
  \/ updatePrizes
  \/ reset
  \/ setSphere

Spec == Init /\ [][Next]_vars

\* Timers fire and animation frames keep coming.
FairSpec ==
  /\ Spec
  /\ WF_vars(revealTimer)
  /\ WF_vars(settleTimer)
  /\ WF_vars(animateLockReached)
  /\ WF_vars(animatePauseOver)

(***************************************************************************)
(* drawWinners on its own: the arguments are drawn from bounded sets, the   *)
(* one action calls it with every outcome of the random source.            *)
(***************************************************************************)
SeqsUpTo(S, n) == UNION {[1..k -> S] : k \in 0..n}

DrawInputs == [candidates : SeqsUpTo(Names, MaxLen), count : (-1)..(MaxLen + 1)]

DrawInit ==
  /\ StoreIs(getInitialState(0))
  /\ calls = [c \in CallIds |-> BlankCall]
  /\ sphereAttached = TRUE
  /\ sphereNames = Range(DefaultNames)
  /\ sphereState = "idle"
  /\ winnersQueue = <<>>
  /\ currentWinnerIndex = 0
  /\ cbOwner = 0
  /\ MotionIdle
  /\ resets = 0
  /\ edits = 0
  /\ dIn \in DrawInputs
  /\ dOut = NotCalled

callDrawWinners ==
  /\ dOut = NotCalled
  /\ \E words \in WordSeqs(Len(dIn.candidates)) :
       dOut' = drawWinners(dIn.candidates, dIn.count, words)
  /\ UNCHANGED <<storeVars, sphereAttached, calls, sphereVars, dIn,
                 motionVars, resets, edits, freeEntryPool>>

DrawNext == callDrawWinners

DrawSpec == DrawInit /\ [][DrawNext]_vars

Distinct(s) == \A i, j \in DOMAIN s : s[i] = s[j] => i = j

\* What C10 promises of a DrawResult r for the arguments (cands, count).
DrawResultOk(cands, count, r) ==
  /\ Len(r.winners) = count
  /\ Distinct(r.winners)
  /\ Range(r.winners) \subseteq Range(cands)
  /\ Len(r.remainingCandidates) = Len(cands) - count
  /\ Range(r.remainingCandidates) \cap Range(r.winners) = {}

DrawValidCall ==
  /\ dOut # NotCalled
  /\ 1 <= dIn.count
  /\ dIn.count <= Len(dIn.candidates)

\* C10 as stated: for every candidate sequence and every count with
\* 1 <= count <= candidates.length, drawWinners returns count pairwise
\* distinct winners, all members of candidates, and length - count remaining
\* candidates that share no element with the winners.
C10_AnySequence ==
  DrawValidCall => dOut.ok /\ DrawResultOk(dIn.candidates, dIn.count, dOut)

\* C10 amended: the same for every sequence of pairwise distinct candidates
\* (the sampler does not deduplicate its input).
C10_DistinctCandidates ==
  (DrawValidCall /\ Distinct(dIn.candidates))
    => dOut.ok /\ DrawResultOk(dIn.candidates, dIn.count, dOut)

\* A valid call on distinct candidates that leaves some candidates undrawn.
C10_Witness ==
  /\ DrawValidCall
  /\ Distinct(dIn.candidates)
  /\ dIn.count = 2
  /\ Len(dIn.candidates) = 3
  /\ dOut.ok

\* C11: drawWinners throws 'Draw count must be at least 1' whenever
\* count <= 0 and 'Not enough candidates to draw' whenever
\* count > candidates.length (the count is checked first); in both cases it
\* returns no result, leaves the caller's array as it was and takes no word
\* from the random source.
C11_ErrorsWithoutEffect ==
  dOut # NotCalled =>
    /\ dIn.count <= 0 => dOut.error = "Draw count must be at least 1"
    /\ (dIn.count > 0 /\ dIn.count > Len(dIn.candidates))
         => dOut.error = "Not enough candidates to draw"
    /\ (dIn.count <= 0 \/ dIn.count > Len(dIn.candidates)) =>
         /\ ~dOut.ok
         /\ dOut.winners = <<>>
         /\ dOut.remainingCandidates = <<>>
         /\ dOut.input = dIn.candidates
         /\ dOut.consumed = 0

\* A call with count 0 on a non-empty array has thrown the count error.
C11_Witness ==
  /\ dIn.count = 0
  /\ Len(dIn.candidates) = MaxLen
  /\ dOut.error = "Draw count must be at least 1"

\* The permutations of the array arr (of distinct elements).
PermutationsOf(arr) ==
  {q \in [1..Len(arr) -> Range(arr)] : Range(q) = Range(arr)}

\* The outcomes of the random source (one word per iteration) for which
\* shuffle turns arr into q.
OutcomesGiving(arr, q) ==
  {words \in WordSeqs(Len(arr)) : shuffle(arr, words) = q}

\* C12: with every word of the random source equally likely, shuffle makes
\* every permutation of its input equally likely: each permutation is the
\* result of the same number of outcomes of the source.
C12_ShuffleUniform ==
  (dOut.ok /\ Distinct(dIn.candidates)) =>
    \A q1, q2 \in PermutationsOf(dIn.candidates) :
      Cardinality(OutcomesGiving(dIn.candidates, q1))
        = Cardinality(OutcomesGiving(dIn.candidates, q2))

\* How many times x occurs in the sequence s.
Occurrences(s, x) == Cardinality({i \in DOMAIN s : s[i] = x})

AppIdle ==
  /\ StoreIs(getInitialState(0))
  /\ calls = [c \in CallIds |-> BlankCall]
  /\ sphereAttached = TRUE
  /\ sphereNames = Range(DefaultNames)
  /\ sphereState = "idle"
  /\ winnersQueue = <<>>
  /\ currentWinnerIndex = 0
  /\ cbOwner = 0
  /\ resets = 0
  /\ edits = 0
  /\ MotionIdle

PlanNumbers == {Literal(h, 2) : h \in (-2)..MaxHalves}

\* SpinPlanOptions; baseSpeed is the default rotationSpeed or its maximum.
PlanInputs ==
  [duration : PlanNumbers, turns : PlanNumbers,
   baseSpeed : {Literal(1, 5), Literal(10, 1)}]

PlanInit ==
  /\ AppIdle
  /\ dIn \in PlanInputs
  /\ dOut = NotCalled

callComputeSpinPlan ==
  /\ dOut = NotCalled
  /\ dOut' = computeSpinPlan(dIn)
  /\ UNCHANGED <<storeVars, sphereAttached, calls, sphereVars, dIn,
                 motionVars, resets, edits, freeEntryPool>>

PlanNext == callComputeSpinPlan

PlanSpec == PlanInit /\ [][PlanNext]_vars

PlanCalled == dOut # NotCalled

\* x and y are finite and differ by at most 4 units in the last place of y.
Close(x, y) ==
  /\ x.k = "num"
  /\ y.k = "num"
  /\ LET e == IF x.e <= y.e THEN x.e ELSE y.e
     IN  /\ x.e - e <= 3
         /\ y.e - e <= 3
         /\ Abs(x.m * 2^(x.e - e) - y.m * 2^(y.e - e)) <= 4 * 2^(y.e - e)

\* maxAngularVelocity * (0.5*accelerationDuration + constantDuration
\*                       + 0.5*decelerationDuration), evaluated in floating point
PlanIntegral(plan) ==
  Times(plan.maxAngularVelocity,
        Plus(Plus(Times(Literal(1, 2), plan.accelerationDuration),
                  plan.constantDuration),
             Times(Literal(1, 2), plan.decelerationDuration)))

\* turns * 2 * Math.PI
PlanTarget == Times(Times(dIn.turns, MathPI), Literal(2, 1))

PlanValidCall == PlanCalled /\ ~NotPositive(dIn.duration) /\ ~NotPositive(dIn.turns)

\* C13 as stated: for duration > 0 and turns > 0 the velocity profile of the
\* plan integrates to exactly turns * 2π.
C13_IntegralExact ==
  PlanValidCall => PlanIntegral(dOut) = PlanTarget

\* C13 amended: it integrates to turns * 2π up to floating-point rounding
\* (at most 4 units in the last place).
C13_IntegralWithinRounding ==
  PlanValidCall => Close(PlanIntegral(dOut), PlanTarget)

\* A plan whose integral is not turns * 2π exactly.
C13_Witness ==
  /\ PlanValidCall
  /\ PlanIntegral(dOut) # PlanTarget
  /\ Close(PlanIntegral(dOut), PlanTarget)

\* C14: computeSpinPlan fails, and returns no plan, whenever duration <= 0
\* or turns <= 0.
C14_InvalidPlanFails ==
  (PlanCalled /\ (NotPositive(dIn.duration) \/ NotPositive(dIn.turns)))
    => ~dOut.ok

PlanTotalMs == Times(dIn.duration, Literal(1000, 1))

PlanSum(plan) ==
  Plus(Plus(plan.accelerationDuration, plan.constantDuration),
       plan.decelerationDuration)

\* C15 as stated: the three durations are 20%, 40% and 40% of
\* duration * 1000 and their sum equals duration * 1000.
C15_RatiosSumExact ==
  PlanCalled =>
    /\ dOut.accelerationDuration = Times(PlanTotalMs, Literal(1, 5))
    /\ dOut.constantDuration = Times(PlanTotalMs, Literal(2, 5))
    /\ dOut.decelerationDuration = Times(PlanTotalMs, Literal(2, 5))
    /\ PlanSum(dOut) = PlanTotalMs

\* C15 amended: they are the products of duration * 1000 by 0.2, 0.4 and
\* 0.4, and their sum equals duration * 1000 up to floating-point rounding
\* (at most 4 units in the last place).
C15_RatiosSumWithinRounding ==
  PlanCalled =>
    /\ dOut.accelerationDuration = Times(PlanTotalMs, Literal(1, 5))
    /\ dOut.constantDuration = Times(PlanTotalMs, Literal(2, 5))
    /\ dOut.decelerationDuration = Times(PlanTotalMs, Literal(2, 5))
    /\ Close(PlanSum(dOut), PlanTotalMs)

\* A plan whose three durations do not add up to duration * 1000 exactly.
C15_Witness ==
  /\ PlanCalled
  /\ PlanSum(dOut) # PlanTotalMs
  /\ Close(PlanSum(dOut), PlanTotalMs)

(***************************************************************************)
(* Properties of the orchestrator                                          *)
(***************************************************************************)
\* The step is one of activation c itself (its position changes).
StepOf(c) == calls'[c].pc # calls[c].pc

\* C1: of two startDraw() calls, the second issued while the first is in
\* flight (suspended on the overwrite prompt, or between sampling and
\* commit), at most one samples winners and at most one commits.  Stated for
\* the behaviours in which store.reset() is never called.
C1_OneSamplingOneCommit ==
  resets = 0 =>
    \A c \in CallIds : \A b \in calls[c].overlap :
      /\ ~(calls[b].sampled /\ calls[c].sampled)
      /\ ~(calls[b].committed /\ calls[c].committed)

\* The names a draw's winners are committed to: the prize's results entry,
\* or the free-draw history.
Destination(c, res, fr) ==
  IF calls[c].kind = "prize" THEN Range(res[calls[c].prize.id]) ELSE Range(fr)

\* A step of activation c puts one of c's winners into its destination or
\* takes one out of the candidate pool.
CommitsWinnersOf(c) ==
  /\ StepOf(c)
  /\ calls[c].sampled
  /\ \E n \in Range(calls[c].winners) :
       \/ /\ n \notin Destination(c, results, freeResults)
          /\ n \in Destination(c, results', freeResults')
       \/ /\ n \in Range(candidates)
          /\ n \notin Range(candidates')

EarlyReturns == {"guard", "noPrize", "declined", "insufficient"}

\* C2: a draw's winners enter the store's results, and leave the candidate
\* pool, only in a step of that draw that comes after the sphere has called
\* the onAllFinished closure of that draw; and an activation of startDraw
\* that returns early has sampled and committed nothing.
C2_CommitOnlyAfterAllFinished ==
  [][\A c \in CallIds :
       /\ CommitsWinnersOf(c) =>
            /\ calls[c].pc = "settle"
            /\ calls[c].allFinished
            /\ calls'[c].pc = "done"
       /\ (StepOf(c) /\ calls'[c].ret \in EarlyReturns) =>
            /\ ~calls'[c].sampled
            /\ ~calls'[c].committed
            /\ ~CommitsWinnersOf(c)]_vars

\* A draw has committed after the sphere ran its winner sequence to the end.
C2_Witness ==
  \E c \in CallIds :
    /\ calls[c].committed
    /\ calls[c].allFinished
    /\ calls[c].kind = "prize"
    /\ sphereState = "idle"
    /\ cbOwner = c

\* C3: every activation that set isDrawing (its reveal timer is pending) is
\* eventually followed by its commit, with isDrawing false again.
C3_DrawRunsToCommit ==
  \A c \in CallIds :
    (calls[c].pc = "reveal") ~> (calls[c].pc = "done" /\ ~isDrawing)

\* C4: the step in which startDraw ends with the insufficient-candidates
\* alert leaves candidates, results and isDrawing as they were, and the
\* activation has requested no spin.
C4_InsufficientChangesNothing ==
  [][\A c \in CallIds :
       (StepOf(c) /\ calls'[c].ret = "insufficient") =>
         /\ candidates' = candidates
         /\ results' = results
         /\ isDrawing' = isDrawing
         /\ ~calls'[c].spun]_vars

\* The user declines the overwrite dialog of activation c in this step.
Declines(c) ==
  /\ calls[c].pc = "prompt"
  /\ calls[c].answer = ""
  /\ calls'[c].answer \in {"cancelBtn", "escape"}

\* C5: when the user declines the overwrite prompt, startDraw changes
\* nothing in the store, requests no spin and samples nothing.
C5_DeclineChangesNothing ==
  [][\A c \in CallIds :
       Declines(c) =>
         /\ UNCHANGED storeVars
         /\ UNCHANGED sphereVars
         /\ calls'[c].pc = "returned"
         /\ ~calls'[c].spun
         /\ ~calls'[c].sampled]_vars

\* An activation ended by the user pressing Escape on the overwrite dialog.
C5_Witness ==
  \E c \in CallIds :
    /\ calls[c].answer = "escape"
    /\ calls[c].ret = "declined"

\* C6: on a confirmed re-draw the previous winners are back in the pool and
\* the prize's entry is empty when the winners are sampled, and when the
\* re-draw commits, results[prize.id] is exactly the list it sampled.
C6_RedrawReplaces ==
  [][\A c \in CallIds :
       /\ (calls[c].pc = "prompt" /\ calls'[c].sampled) =>
            /\ Range(calls[c].snapResults[calls[c].prize.id])
                 \subseteq Range(candidates')
            /\ results'[calls[c].prize.id] = <<>>
       /\ (calls[c].overwrite /\ calls[c].pc = "settle"
             /\ calls'[c].pc = "done") =>
            results'[calls[c].prize.id] = calls[c].winners]_vars

\* C7: when a prize draw commits, results[prize.id] has exactly count names,
\* the pool has exactly count fewer names than when the winners were
\* sampled, and no name is both in results[prize.id] and in the pool.
C7_CompletedDrawCounts ==
  [][\A c \in CallIds :
       (calls[c].kind = "prize" /\ calls[c].pc = "settle"
          /\ calls'[c].pc = "done") =>
         LET id == calls[c].prize.id
         IN  /\ Len(results'[id]) = calls[c].prize.count
             /\ Len(candidates') = calls[c].poolLen - calls[c].prize.count
             /\ Range(results'[id]) \cap Range(candidates') = {}]_vars

\* C8: the winners are sampled in the step that requests the spin, before
\* the reveal timer fires and before any onWinnerHighlight call; they are the
\* list stopAndHighlightWinners receives and the list the commit adds,
\* whatever is done to the store in between.
C8_WinnersFixedAtDrawStart ==
  [][\A c \in CallIds :
       \* sampled with the spin request, in one step
       /\ calls'[c].spun = calls'[c].sampled
       \* nothing is revealed of a draw that has not sampled
       /\ (calls'[c].pc \in {"waiting", "settle", "done"}
             \/ calls'[c].highlights # <<>>) => calls'[c].sampled
       \* the closure's list never changes while the draw is in flight
       /\ (calls[c].sampled /\ calls'[c].pc \in Deferred) =>
            calls'[c].winners = calls[c].winners
       \* the list the sphere receives and reveals
       /\ (calls[c].pc = "reveal" /\ StepOf(c) /\ cbOwner' = c) =>
            winnersQueue' = calls[c].winners
       /\ (calls'[c].pc \in Deferred) =>
            \A i \in DOMAIN calls'[c].highlights :
              calls'[c].highlights[i] \in Range(calls'[c].winners)
       \* the list the commit adds
       /\ (calls[c].pc = "settle" /\ calls'[c].pc = "done") =>
            IF calls[c].kind = "prize"
              THEN results'[calls[c].prize.id] =
                     results[calls[c].prize.id] \o calls[c].winners
              ELSE freeResults' = calls[c].winners \o freeResults]_vars

\* A draw has committed although the store was reset while it ran.
C8_Witness ==
  \E c \in CallIds :
    /\ calls[c].committed
    /\ calls[c].stale

\* C9: once store.reset() has been called while deferred callbacks of a
\* draw were outstanding, no later step of that draw changes the store's
\* candidates or results.
C9_ResetInvalidatesCallbacks ==
  [][\A c \in CallIds :
       (calls[c].stale /\ StepOf(c)) =>
         /\ candidates' = candidates
         /\ results' = results]_vars

\* A prize commit of activation c is the step taken.
PrizeCommit(c) ==
  /\ commitPending(c)
  /\ calls[c].kind = "prize"
  /\ calls'[c].pc = "done"

\* No name is both a recorded winner of some prize and in the pool.
NoNameInBoth(res, cands) ==
  \A id \in PrizeIds : Range(res[id]) \cap Range(cands) = {}

\* C32: no state that is persisted or delivered to a subscriber has a name
\* both in a prize's results and in the candidate pool: the states a prize
\* commit hands to setState have none (when the state before the commit had
\* none), and the last of them is the state the commit leaves.
C32_CommitObservedAtomically ==
  [][\A c \in CallIds :
       (PrizeCommit(c) /\ NoNameInBoth(results, candidates)) =>
         /\ \A i \in DOMAIN settleDeliveries(c) :
              NoNameInBoth(settleDeliveries(c)[i].results,
                           settleDeliveries(c)[i].candidates)
         /\ results' = settleDeliveries(c)[3].results
         /\ candidates' = settleDeliveries(c)[3].candidates
         /\ isDrawing' = settleDeliveries(c)[3].isDrawing]_vars

\* The commit leaves the state of its last setState.
CommitEndsAtLastDelivery ==
  [][\A c \in CallIds :
       PrizeCommit(c) =>
         /\ results' = settleDeliveries(c)[3].results
         /\ candidates' = settleDeliveries(c)[3].candidates
         /\ isDrawing' = settleDeliveries(c)[3].isDrawing]_vars


\* C34: a prize draw keeps the prize that was current when startDraw was
\* called for as long as it is in flight, whatever currentPrizeId becomes
\* meanwhile, and its commit appends its winners to the results of that
\* prize and leaves the results of every other prize as they were.
C34_CommitUnderStartPrize ==
  [][\A c \in CallIds :
       /\ (calls[c].pc = "unissued" /\ calls'[c].pc \in InFlight
             /\ calls'[c].kind = "prize") =>
            calls'[c].prize = FindPrize(prizes, currentPrizeId)
       /\ (calls[c].pc \in InFlight /\ calls'[c].pc \in InFlight
             /\ calls[c].kind = "prize") =>
            calls'[c].prize.id = calls[c].prize.id
       /\ PrizeCommit(c) =>
            /\ results'[calls[c].prize.id] =
                 results[calls[c].prize.id] \o calls[c].winners
            /\ \A id \in PrizeIds \ {calls[c].prize.id} :
                 results'[id] = results[id]]_vars

\* A prize draw started under a prize of the first state has committed
\* after store.reset() made another prize the current one while the draw
\* ran: its winners are under the old prize's id.
C34_Witness ==
  /\ resets = 1
  /\ currentPrizeId = getInitialState(1).currentPrizeId
  /\ \E c \in CallIds :
       /\ calls[c].kind = "prize"
       /\ calls[c].committed
       /\ calls[c].stale
  /\ \E id \in PrizeIds : id[1] = 0 /\ results[id] # <<>>

\* Every prize's winner list is without a repeated name, and no name is in
\* the winner lists of two prizes.
WinnerListsDisjoint ==
  /\ \A id \in PrizeIds : Distinct(results[id])
  /\ \A id1, id2 \in PrizeIds :
       id1 # id2 => Range(results[id1]) \cap Range(results[id2]) = {}

\* C36: from a pool of distinct names, after any sequence of startDraw
\* calls, prompt answers and prize selections (no reset, no change of mode or
\* of the prize list), each prize's winner list has no repeated name and the
\* winner lists of different prizes are pairwise disjoint.
C36_WinnerListsDisjoint ==
  (resets = 0 /\ edits = 0) => WinnerListsDisjoint

(***************************************************************************)
(* The page is reloaded                                                    *)
(***************************************************************************)
\* The page is loaded again.  new Store() takes the state from localStorage,
\* which setState wrote at every change, so the store's state is what it
\* was, isDrawing included.  The timers, the dialog and the closures of the
\* old page are gone; the new page builds a sphere with the name list and a
\* manager with that sphere.
reload ==
  /\ calls' = [c \in CallIds |->
                 IF calls[c].pc \in InFlight
                   THEN Ended(calls[c], "returned", "unloaded")
                   ELSE calls[c]]
  /\ sphereAttached' = TRUE
  /\ sphereNames' = Range(DefaultNames)
  /\ sphereState' = "idle"
  /\ winnersQueue' = <<>>
  /\ currentWinnerIndex' = 0
  /\ cbOwner' = 0
  /\ UNCHANGED <<storeVars, drawVars, freeEntryPool, motionVars, resets,
                 edits>>

ReloadNext == Next \/ reload

ReloadSpec == Init /\ [][ReloadNext]_vars

\* A continuation of activation c is pending that ends with its commit: its
\* reveal timer, the winner sequence the sphere runs for it, or its settle
\* timer.
ContinuationPending(c) ==
  \/ calls[c].pc \in {"reveal", "settle"}
  \/ /\ calls[c].pc = "waiting"
     /\ cbOwner = c
     /\ sphereState \in {"decelerating", "highlighting"}

\* C33: whenever isDrawing is true, a continuation of a draw is pending
\* that will set it back to false, a reload of the page during a draw
\* included.
C33_DrawingHasContinuation ==
  isDrawing => \E c \in CallIds : ContinuationPending(c)

(***************************************************************************)
(* components/LotterySphere.ts, frame by frame.  Times are whole           *)
(* milliseconds; angular velocities and angles are JavaScript numbers.     *)
(* Angles are counted in turns: extraSpinTotal = 1 stands for Math.PI * 2. *)
(***************************************************************************)
\* Latest value of performance.now() the frames may reach.
MaxTime == 10
\* Calls of the sphere's public methods in one run.
MaxSphereCalls == 2
\* Longest time between two frames.
MaxFrameMs == 2

One == Literal(1, 1)
MinNum(x, y) == IF Minus(y, x).m >= 0 THEN x ELSE y
MaxNum(x, y) == IF Minus(x, y).m >= 0 THEN x ELSE y
Max(a, b) == IF a >= b THEN a ELSE b
MsOrElse(x, d) == IF x = NoMs THEN d ELSE x

\* Math.min(elapsed / duration, 1) for whole elapsed >= 0 and duration > 0.
\* Whole milliseconds are exact as JavaScript numbers, so the quotient
\* reaches 1 exactly when elapsed >= duration.
Progress(elapsed, duration) ==
  IF elapsed >= duration THEN One
  ELSE MinNum(Over(Literal(elapsed, 1), Literal(duration, 1)), One)

\* Math.pow(u, 3)
Cube(u) == Times(Times(u, u), u)

\* 1 - Math.pow(1 - t, 3)
easeOutCubic(t) == Minus(One, Cube(Minus(One, t)))

\* this.theta.y += this.omega.y * dt
turn(rc, dt) ==
  [rc EXCEPT !.theta.plus = Plus(@, Times(rc.omega, Literal(dt, 1)))]

\* RotationController.update(dt) at time t
update(rc, t, dt) ==
  LET elapsed == t - rc.blendStartTime
      p == IF rc.blendDuration > 0
             THEN Progress(elapsed, rc.blendDuration) ELSE One
      easedT == easeOutCubic(p)
      omega == Plus(rc.startOmega,
                    Times(Minus(rc.targetOmega, rc.startOmega), easedT))
  IN  turn([rc EXCEPT !.omega = omega], dt)

\* RotationController.setTargetOmega(newTarget, duration) at time t
setTargetOmega(rc, newTarget, duration, t) ==
  [rc EXCEPT !.startOmega = rc.omega, !.targetOmega = newTarget,
             !.blendDuration = duration, !.blendStartTime = t]

\* RotationController.setMode(mode, targetOmega, duration) at time t
rcSetMode(rc, m, targetOmega, duration, t) ==
  setTargetOmega([rc EXCEPT !.mode = m], targetOmega, duration, t)

\* RotationController.forceOmega(omega)
forceOmega(rc, omega) ==
  [rc EXCEPT !.omega = omega, !.startOmega = omega, !.targetOmega = omega,
             !.blendDuration = 0]

\* One entry of sphereLog: a public call, a lock set up toward a name
\* (ms: its duration) or a callback made, at time `at`.
Entry(ev, name, ms) == [ev |-> ev, name |-> name, at |-> now, ms |-> ms]
EntryAt(ev, name, t) == [ev |-> ev, name |-> name, at |-> t, ms |-> 0]

SphereCalls ==
  Cardinality({i \in 1..Len(sphereLog) :
                 sphereLog[i].ev \in
                   {"setBaseSpeed", "spin", "stop", "setNames"}})

\* setBaseSpeed(speedRadS)
callSetBaseSpeed ==
  /\ SphereCalls < MaxSphereCalls
  /\ \E speedRadS \in {DEFAULT_SETTINGS.rotationSpeed} :
       LET perMs == Over(speedRadS, Literal(1000, 1))
       IN  rotationController' =
             IF sphereState = "idle"
               THEN rcSetMode(rotationController, "idle", perMs, 500, now)
               ELSE rotationController
  /\ sphereLog' = Append(sphereLog, Entry("setBaseSpeed", 0, 0))
  /\ UNCHANGED <<storeVars, sphereAttached, calls, sphereVars, drawVars,
                 freeEntryPool,
                 now, stateStartTime, holdAtWinner, spinPlan, stopConfig,
                 extraSpinTotal, decelerationDuration, extraAngle, poseVars,
                 resets, edits>>

\* The SpinPlan values handed to spin(): none, or a plan whose durations are
\* whole milliseconds in the ratio 20/40/40.
SpinPlans ==
  {NoPlan} \cup
  {[ok |-> TRUE, error |-> "", maxAngularVelocity |-> Literal(v, 1000),
    accelerationDuration |-> a, constantDuration |-> 2 * a,
    decelerationDuration |-> 2 * a] : v \in {3}, a \in {2, 3}}

\* spin(plan)
callSpin ==
  /\ SphereCalls < MaxSphereCalls
  /\ sphereLog' = Append(sphereLog, Entry("spin", 0, 0))
  /\ \E plan \in SpinPlans :
       IF sphereNames = {}
         THEN UNCHANGED <<sphereState, stateStartTime, holdAtWinner,
                          spinPlan, rotationController>>
         ELSE /\ holdAtWinner' = FALSE
              /\ spinPlan' = plan
              /\ sphereState' = "accelerating"
              /\ stateStartTime' = now
              /\ LET rc == forceOmega(
                             [rotationController EXCEPT
                                !.theta = EulerOf(groupQuaternion)],
                             Num(0, 0))
                 IN  rotationController' =
                       IF plan # NoPlan
                         THEN rcSetMode(rc, "spinning",
                                        plan.maxAngularVelocity,
                                        plan.accelerationDuration, now)
                         ELSE rc
  /\ UNCHANGED <<storeVars, sphereAttached, calls, sphereNames, winnersQueue,
                 currentWinnerIndex, cbOwner, drawVars, freeEntryPool, now,
                 stopConfig,
                 extraSpinTotal, decelerationDuration, extraAngle, poseVars,
                 resets, edits>>

\* prepareDeceleration(targetName, config): the new quaternions,
\* extraSpinTotal and decelerationDuration, and whether console.warn was
\* called.
prepareDeceleration(targetName, config) ==
  IF targetName \notin sphereNames
    THEN [warned |-> TRUE,
          startQuaternion |-> groupQuaternion,
          endQuaternion |-> groupQuaternion,
          extraSpinTotal |-> Num(0, 0),
          decelerationDuration |-> decelerationDuration]
    ELSE [warned |-> FALSE,
          startQuaternion |-> groupQuaternion,
          endQuaternion |-> TargetQuaternion(targetName, sphereNames),
          extraSpinTotal |->
            MaxNum(Num(0, 0), OrElse(config.extraRevs, Literal(6, 1))),
          decelerationDuration |->
            MsOrElse(config.durationMs,
                     Max(1800, IF spinPlan = NoPlan THEN 2000
                               ELSE spinPlan.decelerationDuration))]

\* prepareTransitionToNext(targetName) at time t, with the group at
\* orientation q: the new state, stateStartTime, quaternions, extraSpinTotal
\* and decelerationDuration, and whether console.warn was called.
prepareTransitionToNext(targetName, t, q) ==
  IF targetName \notin sphereNames
    THEN [warned |-> FALSE,
          state |-> "highlighting", stateStartTime |-> 0,
          startQuaternion |-> startQuaternion,
          endQuaternion |-> endQuaternion,
          extraSpinTotal |-> extraSpinTotal,
          decelerationDuration |-> decelerationDuration]
    ELSE [warned |-> FALSE,
          state |-> "decelerating", stateStartTime |-> t,
          startQuaternion |-> q,
          endQuaternion |-> TargetQuaternion(targetName, sphereNames),
          extraSpinTotal |->
            MaxNum(Num(0, 0), OrElse(stopConfig.nextExtraRevs, One)),
          decelerationDuration |-> MsOrElse(stopConfig.nextDurationMs, 1300)]

\* The extraRevs the page hands over: what validateSettings makes of a saved
\* or edited value x.
SettingsExtraRevs(x) ==
  validateSettings([DEFAULT_SETTINGS EXCEPT !.extraRevs = x]).extraRevs

\* The StopConfig values handed to stopAndHighlightWinners: `{}`, and two
\* configs with every field given (durations positive).
StopConfigs ==
  {NoStopConfig,
   [extraRevs |-> SettingsExtraRevs(Literal(1, 2)), durationMs |-> 2,
    nextExtraRevs |-> One, nextDurationMs |-> 2, finalPauseMs |-> 1],
   [extraRevs |-> SettingsExtraRevs(Literal(201, 1)), durationMs |-> 2,
    nextExtraRevs |-> Literal(3, 2), nextDurationMs |-> 2,
    finalPauseMs |-> 1]}

\* The log with a console.warn entry about `name` added, if one was made.
Warned(log, made, name) ==
  IF made THEN Append(log, Entry("warn", name, 0)) ELSE log

\* stopAndHighlightWinners(winners, onWinnerHighlight, onAllFinished, config)
callStopAndHighlightWinners ==
  /\ SphereCalls < MaxSphereCalls
  /\ \E winners \in SeqsUpTo(Names, 2), config \in StopConfigs :
       LET called == Append(sphereLog, Entry("stop", 0, 0))
       IN  IF sphereNames = {}
             THEN /\ sphereLog' = Append(called, Entry("allFinished", 0, 0))
                  /\ UNCHANGED <<sphereState, winnersQueue,
                                 currentWinnerIndex, cbOwner, stateStartTime,
                                 stopConfig, extraSpinTotal,
                                 decelerationDuration, startQuaternion,
                                 endQuaternion>>
             ELSE /\ winnersQueue' = winners
                  /\ currentWinnerIndex' = 0
                  /\ cbOwner' = 1
                  /\ stopConfig' = config
                  /\ IF Len(winners) > 0
                       THEN LET prep == prepareDeceleration(winners[1], config)
                            IN  /\ startQuaternion' = prep.startQuaternion
                                /\ endQuaternion' = prep.endQuaternion
                                /\ extraSpinTotal' = prep.extraSpinTotal
                                /\ decelerationDuration' =
                                     prep.decelerationDuration
                                /\ sphereState' = "decelerating"
                                /\ stateStartTime' = now
                                /\ sphereLog' =
                                     Append(
                                       Warned(called, prep.warned, winners[1]),
                                       Entry("lock", winners[1],
                                             prep.decelerationDuration))
                       ELSE /\ sphereState' = "idle"
                            /\ sphereLog' =
                                 Append(called, Entry("allFinished", 0, 0))
                            /\ UNCHANGED <<stateStartTime, extraSpinTotal,
                                           decelerationDuration,
                                           startQuaternion, endQuaternion>>
  /\ UNCHANGED <<storeVars, sphereAttached, calls, sphereNames, drawVars,
                 freeEntryPool,
                 now, holdAtWinner, rotationController, spinPlan, extraAngle,
                 groupQuaternion, resets, edits>>

\* `progress >= 1` in animate()
lockReachedEarly(elapsed, duration) == 2 * elapsed >= duration
lockReached(elapsed, duration) == Progress(elapsed, duration) = One

\* The first branch of "2. Apply rotation to group" in animate(): the
\* controller's angles are shown.
thetaShownWhileHeld(state, hold) ==
  state \in {"accelerating", "constant", "idle"}
thetaShown(state, hold) ==
  state \in {"accelerating", "constant"} \/ (state = "idle" /\ ~hold)

\* `now - this.stateStartTime > pauseDuration` in animate()
pauseOverAtOnce(elapsed, pauseDuration) == elapsed >= 0
pauseOver(elapsed, pauseDuration) == elapsed > pauseDuration

\* The frame of animate() at time t: rc is the controller after its
\* update(dt), eased the eased progress of the lock under way.
frame(t, rc, eased) ==
    /\ LET locking == /\ ~thetaShown(sphereState, holdAtWinner)
                      /\ sphereState \in {"decelerating", "highlighting"}
           elapsed == t - stateStartTime
           angle == Times(extraSpinTotal, eased)
           quat == IF thetaShown(sphereState, holdAtWinner)
                     THEN RotationOf(rc.theta)
                   ELSE IF locking
                     THEN LockQuaternion(startQuaternion, endQuaternion,
                                         eased, angle)
                   ELSE groupQuaternion
           reached == /\ locking
                      /\ sphereState = "decelerating"
                      /\ lockReached(elapsed, decelerationDuration)
           \* after the rotation block
           state1 == IF reached THEN "highlighting" ELSE sphereState
           start1 == IF reached THEN t ELSE stateStartTime
           log1 == IF reached
                     THEN Append(sphereLog,
                            EntryAt("highlight",
                                    winnersQueue[currentWinnerIndex + 1], t))
                     ELSE sphereLog
           pauseDuration == MsOrElse(stopConfig.finalPauseMs, 1000)
           over == /\ state1 = "highlighting"
                   /\ pauseOver(t - start1, pauseDuration)
           index1 == currentWinnerIndex + 1
       IN  /\ extraAngle' = IF locking THEN angle ELSE extraAngle
           /\ groupQuaternion' = quat
           /\ IF ~over
                THEN /\ sphereState' = state1
                     /\ stateStartTime' = start1
                     /\ sphereLog' = log1
                     /\ rotationController' = rc
                     /\ UNCHANGED <<currentWinnerIndex, holdAtWinner,
                                    extraSpinTotal, decelerationDuration,
                                    startQuaternion, endQuaternion>>
              ELSE IF index1 < Len(winnersQueue)
                THEN LET next == prepareTransitionToNext(
                                   winnersQueue[index1 + 1], t, quat)
                     IN  /\ currentWinnerIndex' = index1
                         /\ sphereState' = next.state
                         /\ stateStartTime' = next.stateStartTime
                         /\ startQuaternion' = next.startQuaternion
                         /\ endQuaternion' = next.endQuaternion
                         /\ extraSpinTotal' = next.extraSpinTotal
                         /\ decelerationDuration' = next.decelerationDuration
                         /\ sphereLog' =
                              IF next.state = "decelerating"
                                THEN Append(log1,
                                       [ev |-> "lock",
                                        name |-> winnersQueue[index1 + 1],
                                        at |-> t,
                                        ms |-> next.decelerationDuration])
                                ELSE log1
                         /\ rotationController' = rc
                         /\ UNCHANGED holdAtWinner
              ELSE /\ currentWinnerIndex' = index1
                   /\ holdAtWinner' = TRUE
                   /\ rotationController' =
                        forceOmega([rc EXCEPT !.theta = EulerOf(quat)],
                                   Num(0, 0))
                   /\ sphereState' = "idle"
                   /\ stateStartTime' = start1
                   /\ sphereLog' = Append(log1, EntryAt("allFinished", 0, t))
                   /\ UNCHANGED <<extraSpinTotal, decelerationDuration,
                                  startQuaternion, endQuaternion>>
    /\ UNCHANGED <<storeVars, sphereAttached, calls, sphereNames,
                   winnersQueue, cbOwner, drawVars, freeEntryPool, spinPlan,
                   stopConfig,
                   resets, edits>>

\* animate(): one frame, dt milliseconds after the latest one.
animate ==
  \E dt \in 1..MaxFrameMs :
    /\ now + dt <= MaxTime
    /\ now' = now + dt
    /\ frame(now + dt, update(rotationController, now + dt, dt),
             easeOutCubic(IF sphereState = "decelerating"
                            THEN Progress(now + dt - stateStartTime,
                                          decelerationDuration)
                            ELSE One))

\* A sphere built with the name list short of its last name (that name has
\* no sprite); nothing else is going on.
SphereInit ==
  /\ StoreIs(getInitialState(0))
  /\ calls = [c \in CallIds |-> BlankCall]
  /\ sphereAttached = TRUE
  /\ sphereNames = Range(DefaultNames) \ {NumNames}
  /\ sphereState = "idle"
  /\ winnersQueue = <<>>
  /\ currentWinnerIndex = 0
  /\ cbOwner = 0
  /\ resets = 0
  /\ edits = 0
  /\ DrawIdle
  /\ MotionIdle

SphereNext ==
  \/ callSetBaseSpeed
  \/ callSpin
  \/ callStopAndHighlightWinners
  \/ animate

SphereSpec == SphereInit /\ [][SphereNext]_vars

\* The name lists handed to setNames: none, the names the sphere was built
\* with, and all names.
NameLists == {<<>>, SubSeq(DefaultNames, 1, NumNames - 1), DefaultNames}

\* setNames(names) that also stops the animation.
callSetNamesStopping ==
  /\ SphereCalls < MaxSphereCalls
  /\ \E names \in NameLists : sphereNames' = Range(names)
  /\ sphereState' = "idle"
  /\ sphereLog' = Append(sphereLog, Entry("setNames", 0, 0))
  /\ UNCHANGED <<storeVars, sphereAttached, calls, winnersQueue,
                 currentWinnerIndex, cbOwner, drawVars, freeEntryPool, now,
                 stateStartTime,
                 holdAtWinner, rotationController, spinPlan, stopConfig,
                 extraSpinTotal, decelerationDuration, extraAngle, poseVars,
                 resets, edits>>

\* setNames(names): the sprites are disposed of and init() makes those of the
\* new list.
callSetNames ==
  /\ SphereCalls < MaxSphereCalls
  /\ \E names \in NameLists : sphereNames' = Range(names)
  /\ sphereLog' = Append(sphereLog, Entry("setNames", 0, 0))
  /\ UNCHANGED <<storeVars, sphereAttached, calls, sphereState, winnersQueue,
                 currentWinnerIndex, cbOwner, drawVars, freeEntryPool, now,
                 stateStartTime,
                 holdAtWinner, rotationController, spinPlan, stopConfig,
                 extraSpinTotal, decelerationDuration, extraAngle, poseVars,
                 resets, edits>>

\* The sphere with its name list replaced at any moment.
SphereNamesNext ==
  \/ SphereNext
  \/ callSetNames

SphereNamesSpec == SphereInit /\ [][SphereNamesNext]_vars

(***************************************************************************)
(* Claims about the sphere                                                 *)
(***************************************************************************)
\* Position in sphereLog of the latest stopAndHighlightWinners call (0: none).
LastStop ==
  LET S == {i \in 1..Len(sphereLog) : sphereLog[i].ev = "stop"}
  IN  IF S = {} THEN 0 ELSE CHOOSE i \in S : \A j \in S : j <= i
\* Positions after that call with an entry of the given kinds.
After(kinds) ==
  {i \in (LastStop + 1)..Len(sphereLog) : sphereLog[i].ev \in kinds}
\* The entries of the given kind after that call, in order.
RECURSIVE Pick(_, _)
Pick(i, kind) ==
  IF i > Len(sphereLog) THEN <<>>
  ELSE IF sphereLog[i].ev = kind
    THEN <<sphereLog[i]>> \o Pick(i + 1, kind)
  ELSE Pick(i + 1, kind)
\* The winners handed over by that call (the sphere has sprites, so the
\* call stored them).
StopWinners == winnersQueue
\* The latest stop call was made with winners the sphere shows, and no
\* spin() was called before its sequence ended.
StopUndisturbed ==
  /\ LastStop > 0
  /\ Range(StopWinners) \subseteq sphereNames
  /\ \A i \in After({"spin"}) :
       \E j \in After({"allFinished"}) : j < i
\* Durations of the lock toward the k-th winner and of the pause, from the
\* config of the latest stop call.
LockMs(k) ==
  IF k = 1
    THEN MsOrElse(stopConfig.durationMs,
                  Max(1800, IF spinPlan = NoPlan THEN 2000
                            ELSE spinPlan.decelerationDuration))
    ELSE MsOrElse(stopConfig.nextDurationMs, 1300)
PauseMs == MsOrElse(stopConfig.finalPauseMs, 1000)
RECURSIVE StopDeadline(_)
StopDeadline(n) ==
  IF n = 0 THEN 0
  ELSE StopDeadline(n - 1) + LockMs(n) + PauseMs + 2 * MaxFrameMs - 1

BlendElapsed ==
  /\ sphereState \in {"accelerating", "constant"}
  /\ spinPlan # NoPlan
  /\ now - stateStartTime >= spinPlan.accelerationDuration

\* C17: after spin(plan) with no lock requested, once
\* plan.accelerationDuration has elapsed the animation state is 'constant'
\* and the angular velocity is plan.maxAngularVelocity.
C17_ConstantAfterBlend ==
  BlendElapsed =>
    /\ sphereState = "constant"
    /\ rotationController.omega = spinPlan.maxAngularVelocity

\* The step is a call of spin().
SpinStep ==
  /\ Len(sphereLog') = Len(sphereLog) + 1
  /\ sphereLog'[Len(sphereLog')].ev = "spin"

\* C18: spin(plan) causes no jump in angular velocity: the rotation
\* controller's omega right after the call equals omega right before it.
C18_SpinKeepsOmega ==
  [][SpinStep => rotationController'.omega = rotationController.omega]_vars

\* The winner the sphere is working on has no sprite.
TargetMissing ==
  /\ currentWinnerIndex < Len(winnersQueue)
  /\ winnersQueue[currentWinnerIndex + 1] \notin sphereNames

\* C19: a winner without a position on the sphere gets no lock window (the
\* sphere is never 'decelerating' toward it) and no highlight pause (when the
\* sphere is 'highlighting' with it as the current winner, the pause is
\* already forced over: stateStartTime = 0).
C19_MissingTargetSkipped ==
  TargetMissing =>
    /\ sphereState # "decelerating"
    /\ sphereState = "highlighting" => stateStartTime = 0

\* C20: for every extraRevs the settings store accepts and every
\* nextExtraRevs, once a lock has reached progress 1 the overlay angle is the
\* whole extraSpinTotal and that is a whole number of turns.
C20_OverlayWholeTurns ==
  sphereState = "highlighting" =>
    /\ extraAngle = extraSpinTotal
    /\ IsWhole(extraAngle)

\* The step is a call of setNames().
SetNamesStep ==
  /\ Len(sphereLog') = Len(sphereLog) + 1
  /\ sphereLog'[Len(sphereLog')].ev = "setNames"

\* C21: setNames(newNames), in any animation state, leaves the animation
\* state, the group's orientation, the rotation controller's theta and omega,
\* the winners queue and the current winner index unchanged.
C21_SetNamesKeepsMotion ==
  [][SetNamesStep =>
       /\ sphereState' = sphereState
       /\ groupQuaternion' = groupQuaternion
       /\ rotationController'.theta = rotationController.theta
       /\ rotationController'.omega = rotationController.omega
       /\ winnersQueue' = winnersQueue
       /\ currentWinnerIndex' = currentWinnerIndex]_vars

\* setNames() was called in the middle of a lock that had already turned
\* the group.
C21_Witness ==
  /\ sphereLog # <<>>
  /\ sphereLog[Len(sphereLog)].ev = "setNames"
  /\ sphereState = "decelerating"
  /\ groupQuaternion # IdentityQuaternion

\* Positions in the log of the onAllFinished calls a frame made at the end
\* of a winner sequence (those made by stopAndHighlightWinners itself come
\* right after its own entry).
FrameFinishes(log) ==
  {i \in 2..Len(log) : log[i].ev = "allFinished" /\ log[i - 1].ev # "stop"}

\* A winner sequence has ended in the log and neither spin() nor
\* stopAndHighlightWinners() has been called since.
HeldAtWinner(log) ==
  \E i \in FrameFinishes(log) :
    \A j \in (i + 1)..Len(log) : log[j].ev \notin {"spin", "stop"}

AllowedTransitions ==
  {<<"idle", "accelerating">>, <<"accelerating", "constant">>,
   <<"accelerating", "decelerating">>, <<"constant", "decelerating">>,
   <<"decelerating", "highlighting">>, <<"highlighting", "decelerating">>,
   <<"highlighting", "idle">>}

\* C27: for any sequence of spin, stopAndHighlightWinners and setNames calls
\* and frames, every change of the animation state is one of
\* idle->accelerating, accelerating->constant, accelerating->decelerating,
\* constant->decelerating, decelerating->highlighting,
\* highlighting->decelerating, highlighting->idle.
C27_StateDiagram ==
  [][sphereState' # sphereState =>
       <<sphereState, sphereState'>> \in AllowedTransitions]_vars

\* The time of the latest onWinnerHighlight call in the log (-1: none).
LastHighlightAt(log) ==
  LET H == {i \in 1..Len(log) : log[i].ev = "highlight"}
  IN  IF H = {} THEN -1
      ELSE log[CHOOSE i \in H : \A j \in H : j <= i].at

C29_MissingTargetWarned ==
  (TargetMissing /\ sphereState \in {"decelerating", "highlighting"}) =>
    \E i \in After({"warn"}) :
      sphereLog[i].name = winnersQueue[currentWinnerIndex + 1]

\* The stopAndHighlightWinners calls made so far, as positions of the log.
StopCalls == {i \in 1..Len(sphereLog) : sphereLog[i].ev = "stop"}
\* The position of the stop call that follows the one at i (which replaces
\* its callbacks), or the end of the log.
NextStop(i) ==
  LET later == {j \in StopCalls : j > i}
  IN  IF later = {} THEN Len(sphereLog) + 1 ELSE Min(later)
\* The onAllFinished calls made with the callbacks of the stop call at i.
FinishedOf(i) ==
  {j \in (i + 1)..(NextStop(i) - 1) : sphereLog[j].ev = "allFinished"}

\* C37: for any sequence of spin and stopAndHighlightWinners calls, the
\* onAllFinished of every stopAndHighlightWinners call is invoked exactly
\* once in the end: never twice, and as long as it has not been invoked the
\* sphere is still running that call's sequence (which alone invokes it);
\* a call with an empty winners list invokes it at once, with no
\* onWinnerHighlight call.
C37_EveryStopFinishesOnce ==
  \A i \in StopCalls :
    /\ Cardinality(FinishedOf(i)) <= 1
    /\ FinishedOf(i) = {} =>
         /\ i = LastStop
         /\ sphereState \in {"decelerating", "highlighting"}
    /\ (i = LastStop /\ winnersQueue = <<>>) =>
         /\ i + 1 \in FinishedOf(i)
         /\ After({"highlight"}) = {}

(***************************************************************************)
(* Claims about free mode                                                  *)
(***************************************************************************)
\* C23: a free-mode draw that goes on to its reveal has sampled exactly one
\* winner, a name of the candidate pool at draw start; when it completes,
\* that name is put in front of freeResults and taken out of the candidate
\* pool, and the per-prize results are left unchanged.
C23_FreeDrawCommitsOneWinner ==
  [][\A c \in CallIds :
       /\ (calls'[c].kind = "free" /\ calls[c].pc # "reveal"
             /\ calls'[c].pc = "reveal") =>
            /\ Len(calls'[c].winners) = 1
            /\ calls'[c].winners[1] \in Range(candidates)
       /\ (calls[c].kind = "free" /\ calls[c].pc = "settle"
             /\ calls'[c].pc = "done") =>
            /\ Len(calls[c].winners) = 1
            /\ freeResults' = <<calls[c].winners[1]>> \o freeResults
            /\ calls[c].winners[1] \notin Range(candidates')
            /\ \A n \in Range(candidates) :
                 n # calls[c].winners[1] => n \in Range(candidates')
            /\ Len(candidates') <= Len(candidates)
            /\ results' = results]_vars

\* A free-mode draw has completed and its winner is in freeResults.
C23_Witness ==
  \E c \in CallIds :
    /\ calls[c].kind = "free"
    /\ calls[c].committed
    /\ Len(freeResults) > 0

(***************************************************************************)
(* lib/store.ts: the free-mode methods called on their own                 *)
(***************************************************************************)
\* Calls of the store's free-mode methods in one run.
MaxFreeOps == 4

\* addFreeResult(name)
callAddFreeResult ==
  \E name \in Names :
    /\ edits < MaxFreeOps
    /\ edits' = edits + 1
    /\ freeResults' = addFreeResultList(freeResults, name)
    /\ candidates' = addFreeResultPool(candidates, name)
    /\ UNCHANGED <<mode, prizes, results, freeInitialCandidates,
                   currentPrizeId, isDrawing, sphereAttached, calls,
                   sphereVars, drawVars, motionVars, resets, freeEntryPool>>

\* undoFree()
callUndoFree ==
  /\ edits < MaxFreeOps
  /\ edits' = edits + 1
  /\ freeResults' = undoFreeList(freeResults)
  /\ candidates' = undoFreePool(freeResults, candidates)
  /\ UNCHANGED <<mode, prizes, results, freeInitialCandidates,
                 currentPrizeId, isDrawing, sphereAttached, calls,
                 sphereVars, drawVars, motionVars, resets, freeEntryPool>>

\* resetFree()
callResetFree ==
  /\ edits < MaxFreeOps
  /\ edits' = edits + 1
  /\ candidates' = freeInitialCandidates
  /\ freeResults' = <<>>
  /\ UNCHANGED <<mode, prizes, results, freeInitialCandidates,
                 currentPrizeId, isDrawing, sphereAttached, calls,
                 sphereVars, drawVars, motionVars, resets, freeEntryPool>>

\* setMode(mode)
callSetMode ==
  \E m \in {"prize", "free"} :
    /\ edits < MaxFreeOps
    /\ edits' = edits + 1
    /\ mode' = m
    /\ freeInitialCandidates' = IF m = "free" THEN candidates
                                ELSE freeInitialCandidates
    /\ freeEntryPool' = IF mode = "prize" /\ m = "free" THEN candidates
                        ELSE freeEntryPool
    /\ UNCHANGED <<candidates, prizes, results, freeResults, currentPrizeId,
                   isDrawing, sphereAttached, calls, sphereVars, drawVars,
                   motionVars, resets>>

\* The store as a session starts with it: new, or persisted in free mode, or
\* persisted after a first free draw.
FreeInit ==
  /\ \E s \in {getInitialState(0),
               [getInitialState(0) EXCEPT !.mode = "free"],
               [getInitialState(0) EXCEPT
                  !.mode = "free",
                  !.freeResults = <<DefaultNames[1]>>,
                  !.candidates = Tail(DefaultNames)]} : StoreIs(s)
  /\ calls = [c \in CallIds |-> BlankCall]
  /\ sphereAttached = TRUE
  /\ sphereNames = Range(DefaultNames)
  /\ sphereState = "idle"
  /\ winnersQueue = <<>>
  /\ currentWinnerIndex = 0
  /\ cbOwner = 0
  /\ resets = 0
  /\ edits = 0
  /\ DrawIdle
  /\ MotionIdle

FreeNext ==
  \/ callAddFreeResult
  \/ callUndoFree
  \/ callResetFree
  \/ callSetMode

FreeSpec == FreeInit /\ [][FreeNext]_vars

\* What undoFree is to do to the store.
UndoFreeEffect ==
  [][callUndoFree =>
       IF freeResults = <<>>
         THEN UNCHANGED storeVars
         ELSE /\ freeResults' = Tail(freeResults)
              /\ candidates' = <<Head(freeResults)>> \o candidates
              /\ UNCHANGED <<mode, prizes, results, freeInitialCandidates,
                             currentPrizeId, isDrawing>>]_vars

\* undoFree right after addFreeResult(n) gives back freeResults and the
\* pool's set of names.
UndoRestores(n) ==
  LET fr == addFreeResultList(freeResults, n)
      pool == addFreeResultPool(candidates, n)
  IN  /\ undoFreeList(fr) = freeResults
      /\ Range(undoFreePool(fr, pool)) = Range(candidates)

\* C24 as stated: undoFree takes the most recently added free winner off
\* freeResults and puts it at the front of the candidate pool, changes
\* nothing when freeResults is empty, and right after addFreeResult(n), for
\* any name n, on a pool of distinct names it restores freeResults and the
\* pool's set of names.
C24_UndoRestoresAnyName ==
  /\ UndoFreeEffect
  /\ [](Distinct(candidates) => \A n \in Names : UndoRestores(n))

\* C24, amended: the same, with the restoring of the pool's set of names
\* claimed only for a name n that is in the pool when addFreeResult(n) is
\* called.
C24_UndoRestoresPoolName ==
  /\ UndoFreeEffect
  /\ [](Distinct(candidates) => \A n \in Range(candidates) : UndoRestores(n))

\* addFreeResult of a pool name and then undoFree have acted on the initial
\* store: the history is empty again and the pool has its names in a new
\* order.
C24_Witness ==
  /\ edits = 2
  /\ freeResults = <<>>
  /\ candidates # DefaultNames
  /\ Range(candidates) = Range(DefaultNames)
  /\ Distinct(candidates)

\* C25: right after resetFree, freeResults is empty and the candidate pool
\* is the pool as it was when the mode last changed from 'prize' to 'free',
\* whatever addFreeResult, undoFree and setMode calls came in between.
C25_ResetRestoresEntryPool ==
  [][callResetFree =>
       /\ freeResults' = <<>>
       /\ candidates' = freeEntryPool]_vars


(***************************************************************************)
(* lib/prizeConfigState.ts: createPrize(title, count) called on its own    *)
(***************************************************************************)
\* Titles are sequences of characters; " " stands for every white-space
\* character and "a" for every other one.
MaxTitleLen == 3
TitleChars == {" ", "a"}
Titles == UNION {[1..n -> TitleChars] : n \in 0..MaxTitleLen}

RECURSIVE trimStart(_)
trimStart(s) ==
  IF s # <<>> /\ Head(s) = " " THEN trimStart(Tail(s)) ELSE s

RECURSIVE trimEnd(_)
trimEnd(s) ==
  IF s # <<>> /\ s[Len(s)] = " " THEN trimEnd(SubSeq(s, 1, Len(s) - 1)) ELSE s

\* String.prototype.trimStart alone.
trimLeadingOnly(s) == trimStart(s)
\* String.prototype.trim
trim(s) == trimEnd(trimStart(s))

\* count < 1
BelowOne(count) ==
  CASE count.k = "num" -> Minus(count, One).m < 0
    [] count.k = "inf" -> count.m < 0
    [] OTHER -> FALSE

\* Number.isInteger(count)
IsInteger(count) == IsWhole(count)

NoTitledPrize == [id |-> UnknownPrizeId, title |-> <<>>, count |-> Num(0, 0)]
PrizeError(message) == [ok |-> FALSE, error |-> message, prize |-> NoTitledPrize]

\* createPrize as a whole: the two checks, then the prize with its fresh id
\* (the g-th state's k-th prize), trimmed title and count.
createPrizeChecked(g, k, title, count) ==
  IF trim(title) = <<>> THEN PrizeError("Title cannot be empty")
  ELSE IF BelowOne(count) \/ ~IsInteger(count)
    THEN PrizeError("Count must be a positive integer")
  ELSE [ok |-> TRUE, error |-> "",
        prize |-> [id |-> createPrize(g, k, count).id,
                   title |-> trim(title), count |-> count]]

\* The counts tried: halves from -1 up, whole numbers from -2 to 4, NaN and
\* the infinities.
PrizeCounts ==
  {Literal(n, d) : n \in -2..4, d \in {1, 2}}
    \cup {NaN, Infinity(1), Infinity(-1)}

PrizeInputs == [title : Titles, count : PrizeCounts]

PrizeInit ==
  /\ AppIdle
  /\ dIn \in PrizeInputs
  /\ dOut = NotCalled

callCreatePrize ==
  /\ dOut = NotCalled
  /\ dOut' = createPrizeChecked(0, 1, dIn.title, dIn.count)
  /\ UNCHANGED <<storeVars, sphereAttached, calls, sphereVars, dIn,
                 motionVars, resets, edits, freeEntryPool>>

PrizeNext == callCreatePrize

PrizeSpec == PrizeInit /\ [][PrizeNext]_vars

\* The title between its first and its last character that is not white
\* space; empty when it has none.
Inner(title) ==
  LET solid == {i \in 1..Len(title) : title[i] # " "}
  IN  IF solid = {} THEN <<>>
      ELSE SubSeq(title, CHOOSE i \in solid : \A j \in solid : i <= j,
                         CHOOSE i \in solid : \A j \in solid : i >= j)

\* count is one of 1, 2, 3, ...
PositiveInteger(count) == \E i \in 1..8 : count = Literal(i, 1)

\* C26: createPrize returns a prize exactly when the title has a character
\* that is not white space and count is an integer >= 1; the prize then has
\* the title without its leading and trailing white space (and the count
\* given); for every other input it throws and returns no prize.
C26_CreatePrizeValidates ==
  dOut # NotCalled =>
    IF Inner(dIn.title) # <<>> /\ PositiveInteger(dIn.count)
      THEN /\ dOut.ok
           /\ dOut.prize.title = Inner(dIn.title)
           /\ dOut.prize.count = dIn.count
      ELSE /\ ~dOut.ok
           /\ dOut.prize = NoTitledPrize

\* A title with white space on both sides and the count 2 give a prize.
C26_Witness ==
  /\ dOut # NotCalled
  /\ dIn.title = <<" ", "a", " ">>
  /\ dIn.count = Literal(2, 1)
  /\ dOut.ok
  /\ dOut.prize.title = <<"a">>

(***************************************************************************)
(* lib/modalManager.ts: one alert() or confirm() dialog from its call to   *)
(* its removal                                                             *)
(***************************************************************************)
MaxDialogEvents == 3

\* An option of the caller: left out, true or false.
OptionValues == {"undefined", "true", "false"}
ModalCalls ==
  [method : {"alert", "confirm"}, allowOutsideClick : OptionValues,
   allowEsc : OptionValues]

\* The options alert() and confirm() hand to show(): confirm() overrides
\* allowOutsideClick and allowEsc, alert() passes the caller's on.
showOptions(call) ==
  IF call.method = "confirm"
    THEN [type |-> "confirm", allowOutsideClick |-> "false",
          allowEsc |-> "true"]
    ELSE [type |-> "alert", allowOutsideClick |-> call.allowOutsideClick,
          allowEsc |-> call.allowEsc]

\* show() up to its return: the dialog is in the page, the promise pending,
\* the keydown listener on the document.
\*   shown        the promise of show(): "pending", "resolve" or "reject"
\*   returned     the promise of alert()/confirm(): "pending", "void",
\*                "true", "false" or "rejected"
\*   inPage       the modal element is in the document
\*   closing      cleanup() has set the timer that removes the element
\*   escListener  handleEsc is a keydown listener of the document
\*   dismissedBy  the first event that ran handleConfirm or handleCancel
\*   events       the user's events so far
show(call) ==
  [options |-> showOptions(call), shown |-> "pending", returned |-> "pending",
   inPage |-> TRUE, closing |-> FALSE, escListener |-> TRUE,
   dismissedBy |-> "none", events |-> 0]

\* alert(): return this.show(...), so its promise settles as show's does.
alertReturns(settled) == IF settled = "resolve" THEN "void" ELSE "rejected"
\* confirm(): true when show() resolved, false when it rejected.
confirmReturns(event) == IF confirm(event) THEN "true" ELSE "false"

\* handleConfirm / handleCancel run for event: cleanup(), then resolve() or
\* reject(), which settle the promise only while it is pending.
handle(d, event) ==
  LET first == d.shown = "pending"
  IN  [d EXCEPT !.closing = TRUE,
                !.shown = IF first THEN showSettles(event) ELSE @,
                !.returned =
                  IF ~first THEN @
                  ELSE IF d.options.type = "confirm"
                    THEN confirmReturns(event)
                    ELSE alertReturns(showSettles(event)),
                !.dismissedBy = IF @ = "none" THEN event ELSE @]

Happened(d) == [d EXCEPT !.events = @ + 1]

ModalUnchanged ==
  UNCHANGED <<storeVars, sphereAttached, calls, sphereVars, dIn,
              motionVars, resets, edits, freeEntryPool>>

callAlert ==
  /\ dOut = NotCalled
  /\ dIn.method = "alert"
  /\ dOut' = show(dIn)
  /\ ModalUnchanged

callConfirm ==
  /\ dOut = NotCalled
  /\ dIn.method = "confirm"
  /\ dOut' = show(dIn)
  /\ ModalUnchanged

UserCan == dOut # NotCalled /\ dOut.events < MaxDialogEvents

\* A click on the confirm button.
clickConfirmBtn ==
  /\ UserCan
  /\ dOut.inPage
  /\ dOut' = handle(Happened(dOut), "confirmBtn")
  /\ ModalUnchanged

\* A click on the cancel button, which only a confirm dialog has.
clickCancelBtn ==
  /\ UserCan
  /\ dOut.inPage
  /\ dOut.options.type = "confirm"
  /\ dOut' = handle(Happened(dOut), "cancelBtn")
  /\ ModalUnchanged

\* A click on the overlay outside the dialog.
clickOutside ==
  /\ UserCan
  /\ dOut.inPage
  /\ dOut' = IF dOut.options.allowOutsideClick # "false"
               THEN handle(Happened(dOut), "outside")
               ELSE Happened(dOut)
  /\ ModalUnchanged

\* The Escape key, heard by the document's listener for as long as that
\* is there.
pressEscape ==
  /\ UserCan
  /\ dOut' = IF dOut.escListener /\ dOut.options.allowEsc # "false"
               THEN [handle(Happened(dOut), "escape")
                       EXCEPT !.escListener = FALSE]
               ELSE Happened(dOut)
  /\ ModalUnchanged

\* The timer of cleanup() fires: modalElement.remove().
removeModal ==
  /\ dOut # NotCalled
  /\ dOut.closing
  /\ dOut.inPage
  /\ dOut' = [dOut EXCEPT !.inPage = FALSE]
  /\ ModalUnchanged

ModalInit ==
  /\ AppIdle
  /\ dIn \in ModalCalls
  /\ dOut = NotCalled

ModalNext ==
  \/ callAlert
  \/ callConfirm
  \/ clickConfirmBtn
  \/ clickCancelBtn
  \/ clickOutside
  \/ pressEscape
  \/ removeModal

ModalSpec == ModalInit /\ [][ModalNext]_vars

Shown == dOut # NotCalled

\* C30: the promise of confirm() or alert() settles once (a dismissal
\* settles it, and once settled it keeps its outcome) and never rejects;
\* confirm gives true for the confirm button and false for the cancel
\* button or Escape; alert resolves whichever way it is dismissed (confirm
\* button, Escape, click outside).
C30_SettlesOnceNeverRejects ==
  /\ [][Shown /\ dOut.returned # "pending"
          => dOut'.returned = dOut.returned]_vars
  /\ [](Shown =>
          /\ dOut.returned # "rejected"
          /\ dOut.dismissedBy # "none" => dOut.returned # "pending"
          /\ dIn.method = "confirm" /\ dOut.dismissedBy = "confirmBtn"
               => dOut.returned = "true"
          /\ dIn.method = "confirm"
               /\ dOut.dismissedBy \in {"cancelBtn", "escape"}
               => dOut.returned = "false"
          /\ dIn.method = "alert" /\ dOut.dismissedBy # "none"
               => dOut.returned = "void")

\* What does hold: every promise settles once; confirm() never rejects and
\* gives true for the confirm button, false for the cancel button or
\* Escape; alert() dismissed with its button resolves.
ConfirmAndButtonSettle ==
  /\ [][Shown /\ dOut.returned # "pending"
          => dOut'.returned = dOut.returned]_vars
  /\ [](Shown =>
          /\ dOut.dismissedBy # "none" => dOut.returned # "pending"
          /\ dIn.method = "confirm" => dOut.returned # "rejected"
          /\ dIn.method = "confirm" /\ dOut.dismissedBy = "confirmBtn"
               => dOut.returned = "true"
          /\ dIn.method = "confirm"
               /\ dOut.dismissedBy \in {"cancelBtn", "escape"}
               => dOut.returned = "false"
          /\ dIn.method = "alert" /\ dOut.dismissedBy = "confirmBtn"
               => dOut.returned = "void")

(***************************************************************************)
(* Draws and the store's pool operations together                          *)
(***************************************************************************)
\* Object.values(results).flat() for the keys in the order ids.
RECURSIVE Flat(_, _)
Flat(res, ids) ==
  IF ids = <<>> THEN <<>> ELSE res[Head(ids)] \o Flat(res, Tail(ids))

\* The orders the keys of results can be in: the keys are the prizes that
\* have winners, in the order their entries were made.
KeyOrders(res) ==
  LET keys == {id \in PrizeIds : res[id] # <<>>}
  IN  {ids \in [1..Cardinality(keys) -> keys] : Range(ids) = keys}

\* clearResults(): every recorded winner goes back to the end of the pool.
callClearResults ==
  /\ edits < MaxFreeOps
  /\ edits' = edits + 1
  /\ results' = NoResults
  /\ \E ids \in KeyOrders(results) :
       candidates' = candidates \o Flat(results, ids)
  /\ UNCHANGED <<mode, prizes, freeResults, freeInitialCandidates,
                 currentPrizeId, isDrawing, sphereAttached, calls,
                 sphereVars, drawVars, motionVars, resets, freeEntryPool>>

\* A new store (no results, the pool of data/name.ts) and a sphere with the
\* names.
PoolInit ==
  /\ StoreIs(getInitialState(0))
  /\ calls = [c \in CallIds |-> BlankCall]
  /\ sphereAttached = TRUE
  /\ sphereNames = Range(DefaultNames)
  /\ sphereState = "idle"
  /\ winnersQueue = <<>>
  /\ currentWinnerIndex = 0
  /\ cbOwner = 0
  /\ resets = 0
  /\ edits = 0
  /\ DrawIdle
  /\ MotionIdle

PoolNext ==
  \/ startDraw
  \/ answerOverwrite
  \/ revealTimer
  \/ animateLockReached
  \/ animatePauseOver
  \/ settleTimer
  \/ setCurrentPrize
  \/ callSetMode
  \/ callUndoFree
  \/ callResetFree
  \/ callClearResults

PoolSpec == PoolInit /\ [][PoolNext]_vars

\* No draw is under way.
NoDrawInFlight == \A c \in CallIds : calls[c].pc \notin InFlight

\* In how many places the name n is: the pool, the prizes' results and
\* freeResults, each occurrence counted.
Places(n) ==
  Occurrences(candidates, n) + Occurrences(freeResults, n)
    + Occurrences(Flat(results, CHOOSE ids \in KeyOrders(results) : TRUE), n)

\* C35: from a new store, after any sequence of completed draws (prize or
\* free, overwrites confirmed), undoFree, resetFree, clearResults and
\* setMode calls, every name of the original pool is in exactly one place.
C35_NamesConserved ==
  NoDrawInFlight => \A n \in Range(DefaultNames) : Places(n) = 1


(***************************************************************************)
(* lib/settingsStore.ts: the SettingsStore from its construction on        *)
(***************************************************************************)
\* updateSettings is called with objects that mention at most this many
\* fields.
MaxMentioned == 1

SettingsFields == {"rotationSpeed", "spinTurns", "spinDuration", "extraRevs"}

\* A value that is not a number: a string, null, undefined given as a value.
NotANumber == [k |-> "other", m |-> 0, e |-> 0]

\* The values a field is given: just below, at and above the ends of its
\* range, NaN, Infinity and a value that is not a number.
GivenValues ==
  [rotationSpeed |-> {Literal(9, 100), Literal(1, 10), Literal(10, 1),
                      Literal(11, 1)},
   spinTurns |-> {Literal(1, 2), Literal(1, 1), Literal(100, 1),
                  Literal(101, 1)},
   spinDuration |-> {Literal(0, 1), Literal(1, 1), Literal(60, 1),
                     Literal(61, 1)},
   extraRevs |-> {Literal(-1, 1), Literal(0, 1), Literal(200, 1),
                  Literal(201, 1)}]

OddValues == {NaN, Infinity(1), NotANumber}

\* The values of field f in an object that gives the fields of S only (the
\* others are Undefined).
ValuesIn(f, S, odd) ==
  IF f \in S THEN GivenValues[f] \cup odd ELSE {Undefined}

\* The objects with at most n fields given.
ObjectsMentioning(n, odd) ==
  UNION {[rotationSpeed : ValuesIn("rotationSpeed", S, odd),
          spinTurns : ValuesIn("spinTurns", S, odd),
          spinDuration : ValuesIn("spinDuration", S, odd),
          extraRevs : ValuesIn("extraRevs", S, odd)] :
           S \in {T \in SUBSET SettingsFields : Cardinality(T) <= n}}

\* What localStorage.getItem('appSettings.v1') can give: nothing, a text
\* that JSON.parse rejects, the text "null", or an object (JSON has no NaN
\* and no Infinity).
NoItem == [kind |-> "none", data |-> DEFAULT_SETTINGS]
BadJson == [kind |-> "garbage", data |-> DEFAULT_SETTINGS]
JsonNull == [kind |-> "null", data |-> DEFAULT_SETTINGS]
JsonObject(o) == [kind |-> "object", data |-> o]

SavedItems ==
  {NoItem, BadJson, JsonNull}
    \cup {JsonObject(o) : o \in ObjectsMentioning(MaxMentioned, {NotANumber})}

\* The arguments updateSettings is called with.
UpdateArguments == ObjectsMentioning(MaxMentioned, OddValues)

\* JSON.parse(JSON.stringify(settings)): finite numbers come back as they
\* are, NaN and the infinities as null.
stringify(settings) ==
  JsonObject([f \in SettingsFields |->
                IF settings[f].k \in {"nan", "inf"} THEN NotANumber
                ELSE settings[f]])

\* loadSettings(): the defaults when nothing is saved or when JSON.parse or
\* validateSettings throws (validateSettings(null) does), else the saved
\* object validated.
loadSettings(saved) ==
  IF saved.kind \in {"none", "garbage", "null"} THEN DEFAULT_SETTINGS
  ELSE validateSettings(saved.data)

\* { ...this.settings, ...newSettings }
Spread(settings, newSettings) ==
  [f \in SettingsFields |->
     IF newSettings[f] = Undefined THEN settings[f] ELSE newSettings[f]]

\* updateSettings that validates the new fields only and keeps the stored
\* value of a field given an invalid one.
updateSettingsKeepsStored(settings, newSettings) ==
  [f \in SettingsFields |->
     IF validateSettings(Spread(settings, newSettings))[f]
          = Spread(settings, newSettings)[f]
       THEN Spread(settings, newSettings)[f] ELSE settings[f]]

\* updateSettings(newSettings): the new this.settings.
updateSettings(settings, newSettings) ==
  validateSettings(Spread(settings, newSettings))

\* dOut is the SettingsStore: settings is this.settings; op, arg and before
\* record the latest call, its argument and this.settings before it.  dIn is
\* the item 'appSettings.v1' of localStorage.
SettingsStoreIs(settings, op, arg, before) ==
  [settings |-> settings, op |-> op, arg |-> arg, before |-> before]

NoArg == [f \in SettingsFields |-> Undefined]

\* new SettingsStore()
SettingsInit ==
  /\ AppIdle
  /\ dIn \in SavedItems
  /\ dOut = SettingsStoreIs(loadSettings(dIn), "new", NoArg, DEFAULT_SETTINGS)

SettingsUnchanged ==
  UNCHANGED <<storeVars, sphereAttached, calls, sphereVars, motionVars,
              resets, edits, freeEntryPool>>

callUpdateSettings ==
  \E newSettings \in UpdateArguments :
    /\ dOut' = SettingsStoreIs(updateSettings(dOut.settings, newSettings),
                               "update", newSettings, dOut.settings)
    /\ dIn' = stringify(dOut'.settings)
    /\ SettingsUnchanged

callResetToDefault ==
  /\ dOut' = SettingsStoreIs(DEFAULT_SETTINGS, "reset", NoArg, dOut.settings)
  /\ dIn' = stringify(dOut'.settings)
  /\ SettingsUnchanged

\* The page is loaded again: new SettingsStore() reads the saved item.
reloadSettings ==
  /\ dOut' = SettingsStoreIs(loadSettings(dIn), "new", NoArg, dOut.settings)
  /\ dIn' = dIn
  /\ SettingsUnchanged

SettingsNext ==
  \/ callUpdateSettings
  \/ callResetToDefault
  \/ reloadSettings

SettingsSpec == SettingsInit /\ [][SettingsNext]_vars

\* x <= y for two finite numbers, by their exact values.
ExactLeq(x, y) ==
  LET e == IF x.e <= y.e THEN x.e ELSE y.e
  IN  x.m * 2^(x.e - e) <= y.m * 2^(y.e - e)

\* v is a number from lo/lod to hi/hid (the nearest numbers to these).
Within(v, lo, lod, hi, hid) ==
  /\ v.k = "num"
  /\ ExactLeq(Literal(lo, lod), v)
  /\ ExactLeq(v, Literal(hi, hid))

InItsRange(f, v) ==
  CASE f = "rotationSpeed" -> Within(v, 1, 10, 10, 1)
    [] f = "spinTurns" -> Within(v, 1, 1, 100, 1)
    [] f = "spinDuration" -> Within(v, 1, 1, 60, 1)
    [] f = "extraRevs" -> Within(v, 0, 1, 200, 1)

\* C38: after any sequence of loads, updateSettings and resetToDefault
\* calls, every stored field is a number in its range (0.1..10, 1..100,
\* 1..60, 0..200), so spinDuration and spinTurns, which the orchestrator
\* hands to computeSpinPlan as duration and turns, are positive.
C38_SettingsInRange ==
  /\ \A f \in SettingsFields : InItsRange(f, dOut.settings[f])
  /\ dOut.settings.spinDuration.m > 0
  /\ dOut.settings.spinTurns.m > 0

\* updateSettings was called with a spinDuration of 0 on settings with a
\* spinDuration of 60 and a spinTurns of 100.
C38_Witness ==
  /\ dOut.op = "update"
  /\ dOut.arg.spinDuration = Literal(0, 1)
  /\ dOut.before.spinDuration = Literal(60, 1)
  /\ dOut.settings.spinTurns = Literal(100, 1)
  /\ dOut.settings.spinDuration = DEFAULT_SETTINGS.spinDuration

\* C39: updateSettings(partial) leaves every field that partial does not
\* mention as it was; a mentioned field becomes the given value when that is
\* a number in the field's range, and the default value otherwise (not the
\* previous value, not the value given).
C39_UpdateFrame ==
  dOut.op = "update" =>
    \A f \in SettingsFields :
      dOut.settings[f] =
        IF dOut.arg[f] = Undefined THEN dOut.before[f]
        ELSE IF InItsRange(f, dOut.arg[f]) THEN dOut.arg[f]
        ELSE DEFAULT_SETTINGS[f]

\* updateSettings({spinTurns: NaN}) on settings with spinTurns 100 and
\* rotationSpeed 10: spinTurns is the default, rotationSpeed still 10.
C39_Witness ==
  /\ dOut.op = "update"
  /\ dOut.arg.spinTurns = NaN
  /\ dOut.arg.rotationSpeed = Undefined
  /\ dOut.before.spinTurns = Literal(100, 1)
  /\ dOut.before.rotationSpeed = Literal(10, 1)
  /\ dOut.settings.spinTurns = DEFAULT_SETTINGS.spinTurns
  /\ dOut.settings.rotationSpeed = Literal(10, 1)
=============================================================================
